---- MODULE Spec2Model ----
(***************************************************************************)
(* Model of the Lunch Money sync tool: the categorization engine           *)
(* (src/src/categorize.js), the learned-association memory                  *)
(* (src/src/memory.js), the Lunch Money fetcher (src/unnamed/part_000) and  *)
(* the sync orchestrator with its utilities (src/src/sync.js).              *)
(*                                                                         *)
(* Strings are sequences of one-character strings, so that sanitizing,     *)
(* case folding, containment and bigram similarity are computed, not       *)
(* assumed.  A JavaScript object is the sequence of its [key, value]       *)
(* pairs in Object.entries order.  Amounts are integers in thousandths of  *)
(* the major currency unit, so that toFixed(2) is a real rounding.         *)
(***************************************************************************)
EXTENDS Integers, Sequences, FiniteSets, TLC

(***************************************************************************)
(* Bounds of the model.                                                    *)
(***************************************************************************)
MaxCalls == 2

\* Runs of sync the model follows.
MaxRuns == 2

(***************************************************************************)
(* Characters and strings.                                                 *)
(***************************************************************************)
Digits == {"0", "1", "2", "3", "4", "5", "6", "7", "8", "9"}

\* The characters removed by the regular expression /[<>\"'/\\]/g.
DangerousChars == {"<", ">", "\"", "'", "/", "\\"}

Whitespace == {" "}

\* null / undefined, where the other values are category names or ids.
Null == "null"

\* null, where the other values are strings (sequences of characters).
NullString == <<"null">>

Min(a, b) == IF a < b THEN a ELSE b

\* String.prototype.toLowerCase on one character.
LowerChar(c) == IF c = "A" THEN "a" ELSE c

toLowerCase(s) == [i \in 1..Len(s) |-> LowerChar(s[i])]

RECURSIVE StripChars(_, _)
\* String.prototype.replace(/[...]/g, ''): every character of cs removed.
StripChars(s, cs) ==
  IF s = <<>> THEN <<>>
  ELSE IF Head(s) \in cs THEN StripChars(Tail(s), cs)
       ELSE <<Head(s)>> \o StripChars(Tail(s), cs)

RECURSIVE TrimLeft(_)
TrimLeft(s) ==
  IF s # <<>> /\ Head(s) \in Whitespace THEN TrimLeft(Tail(s)) ELSE s

RECURSIVE TrimRight(_)
TrimRight(s) ==
  IF s # <<>> /\ s[Len(s)] \in Whitespace
  THEN TrimRight(SubSeq(s, 1, Len(s) - 1)) ELSE s

\* String.prototype.trim
trim(s) == TrimRight(TrimLeft(s))

\* String.prototype.substring(0, n)
substring0(s, n) == SubSeq(s, 1, Min(Len(s), n))

\* String.prototype.includes
includes(s, t) ==
  \E i \in 0..(Len(s) - Len(t)) : SubSeq(s, i + 1, i + Len(t)) = t

(***************************************************************************)
(* JavaScript objects used as ordered maps.                                *)
(***************************************************************************)
DigitVal(c) ==
  CASE c = "0" -> 0 [] c = "1" -> 1 [] c = "2" -> 2 [] c = "3" -> 3
    [] c = "4" -> 4 [] c = "5" -> 5 [] c = "6" -> 6 [] c = "7" -> 7
    [] c = "8" -> 8 [] OTHER -> 9

RECURSIVE NumVal(_)
NumVal(k) ==
  IF k = <<>> THEN 0
  ELSE 10 * NumVal(SubSeq(k, 1, Len(k) - 1)) + DigitVal(k[Len(k)])

\* A property key that is a canonical array index: own enumeration lists
\* these first, in ascending numeric order, before the other string keys.
\* (Keys of ten digits, some of which are indices too, are beyond the
\* strings of this model.)
IsIndexKey(k) ==
  /\ Len(k) >= 1
  /\ Len(k) <= 9
  /\ \A i \in 1..Len(k) : k[i] \in Digits
  /\ (k[1] # "0" \/ Len(k) = 1)

HasKey(o, k) == \E i \in 1..Len(o) : o[i][1] = k

\* o[k], or Null when the key is absent (undefined).
ObjGet(o, k) ==
  IF HasKey(o, k)
  THEN o[CHOOSE i \in 1..Len(o) : o[i][1] = k][2]
  ELSE Null

\* Number of leading entries that stay before a new index key k.
IndexSlot(o, k) ==
  Cardinality({i \in 1..Len(o) : IsIndexKey(o[i][1]) /\ NumVal(o[i][1]) < NumVal(k)})

\* Number of leading entries that are index keys.
IndexCount(o) == Cardinality({i \in 1..Len(o) : IsIndexKey(o[i][1])})

\* o[k] = v: an existing key keeps its place, a new index key goes to its
\* numeric place, any other new key goes last.
ObjSet(o, k, v) ==
  IF HasKey(o, k)
  THEN [i \in 1..Len(o) |-> IF o[i][1] = k THEN <<k, v>> ELSE o[i]]
  ELSE IF IsIndexKey(k)
       THEN SubSeq(o, 1, IndexSlot(o, k)) \o << <<k, v>> >>
              \o SubSeq(o, IndexSlot(o, k) + 1, Len(o))
       ELSE Append(o, <<k, v>>)

RECURSIVE ObjFromPairs(_)
\* The object a JSON text with these members, in this order, parses to.
ObjFromPairs(ps) ==
  IF ps = <<>> THEN <<>>
  ELSE ObjSet(ObjFromPairs(SubSeq(ps, 1, Len(ps) - 1)),
              ps[Len(ps)][1], ps[Len(ps)][2])

ObjectKeys(o) == [i \in 1..Len(o) |-> o[i][1]]

(***************************************************************************)
(* Similarity scorer (categorize.js).  A rating is the fraction n/d.       *)
(***************************************************************************)
Bigrams(s) == {SubSeq(s, i, i + 1) : i \in 1..(Len(s) - 1)}

\* Mutant of calculateSimilarity: the shared bigrams are measured against
\* the bigrams of the first string only.
calculateSimilarityOfFirst(str1, str2) ==
  IF str1 = <<>> \/ str2 = <<>> THEN [n |-> 0, d |-> 1]
  ELSE LET a == toLowerCase(str1)
           b == toLowerCase(str2)
       IN IF a = b THEN [n |-> 1, d |-> 1]
          ELSE IF Len(a) < 2 \/ Len(b) < 2 THEN [n |-> 0, d |-> 1]
          ELSE [n |-> 2 * Cardinality(Bigrams(a) \cap Bigrams(b)),
                d |-> 2 * Cardinality(Bigrams(a))]

calculateSimilarity(str1, str2) ==
  IF str1 = <<>> \/ str2 = <<>> THEN [n |-> 0, d |-> 1]
  ELSE LET a == toLowerCase(str1)
           b == toLowerCase(str2)
       IN IF a = b THEN [n |-> 1, d |-> 1]
          ELSE IF Len(a) < 2 \/ Len(b) < 2 THEN [n |-> 0, d |-> 1]
          ELSE [n |-> 2 * Cardinality(Bigrams(a) \cap Bigrams(b)),
                d |-> Cardinality(Bigrams(a)) + Cardinality(Bigrams(b))]

RatingGt(r, q) == r.n * q.d > q.n * r.d

RatingGe(r, q) == r.n * q.d >= q.n * r.d

RECURSIVE findBestMatchLast(_, _)
\* Mutant of findBestMatch: a candidate that ties with the best replaces it.
findBestMatchLast(target, candidates) ==
  IF candidates = <<>> THEN [target |-> NullString, rating |-> [n |-> 0, d |-> 1]]
  ELSE LET prev == findBestMatchLast(target, SubSeq(candidates, 1, Len(candidates) - 1))
           cand == candidates[Len(candidates)]
           rating == calculateSimilarity(target, cand)
       IN IF RatingGe(rating, prev.rating)
          THEN [target |-> cand, rating |-> rating]
          ELSE prev

RECURSIVE findBestMatch(_, _)
\* The loop of findBestMatch, folded over the candidates from the left.
findBestMatch(target, candidates) ==
  IF candidates = <<>> THEN [target |-> NullString, rating |-> [n |-> 0, d |-> 1]]
  ELSE LET prev == findBestMatch(target, SubSeq(candidates, 1, Len(candidates) - 1))
           cand == candidates[Len(candidates)]
           rating == calculateSimilarity(target, cand)
       IN IF RatingGt(rating, prev.rating)
          THEN [target |-> cand, rating |-> rating]
          ELSE prev

\* Mutant of FuzzyThresholdMet: the threshold is 0.6.
FuzzyThresholdLoose(r) == 10 * r.n >= 6 * r.d

\* rating >= 0.7
FuzzyThresholdMet(r) == 10 * r.n >= 7 * r.d

(***************************************************************************)
(* Learned-association store (memory.js).  The persisted file is absent,   *)
(* unparsable, or holds an object.                                         *)
(***************************************************************************)
NoFile == [kind |-> "absent", data |-> <<>>]

CorruptFile == [kind |-> "corrupt", data |-> <<>>]

FileOf(memory) == [kind |-> "ok", data |-> memory]

\* Mutant of loadMemory: a file that does not parse yields an association.
loadMemoryLenient(file) ==
  IF file.kind = "ok" THEN file.data
  ELSE IF file.kind = "corrupt" THEN << <<(<<"a">>), "Shop">> >>
  ELSE <<>>

loadMemory(file) == IF file.kind = "ok" THEN file.data ELSE <<>>

\* Mutant of saveMemory: the write is left out.
saveMemoryNoWrite(file, memory, writeOk) == file

\* writeFileSync may throw; the error is logged and swallowed.
saveMemory(file, memory, writeOk) == IF writeOk THEN FileOf(memory) ELSE file

(***************************************************************************)
(* Category resolver (categorize.js).                                      *)
(***************************************************************************)
CategoryNames == {"Food", "Shop"}

\* String.prototype.toLowerCase on a category name.
LowerName(name) ==
  CASE name = "Food" -> "food"
    [] name = "Shop" -> "shop"
    [] OTHER -> name

NoCategories == [loaded |-> FALSE, map |-> <<>>]

\* The map built from the list the categories endpoint returned: one
\* [lower-cased name, id] entry per listed category, in list order.
CategoriesMapOf(list) ==
  [loaded |-> TRUE,
   map |-> [i \in 1..Len(list) |-> <<LowerName(list[i].name), list[i].id>>]]

\* Mutant of CategoryLookup: a name that is not in the map gets the id of
\* the first category instead of null.
CategoryLookupFallback(map, key) ==
  LET hits == {i \in 1..Len(map) : map[i][1] = key}
  IN IF hits = {} THEN (IF Len(map) > 0 THEN map[1][2] ELSE Null)
     ELSE map[CHOOSE i \in hits : \A j \in hits : j <= i][2]

\* categories[key] || null; a later entry of the same key overwrote the
\* earlier one when the map was built.
CategoryLookup(map, key) ==
  LET hits == {i \in 1..Len(map) : map[i][1] = key}
  IN IF hits = {} THEN Null
     ELSE map[CHOOSE i \in hits : \A j \in hits : j <= i][2]

\* Mutant of getCategoriesMap: the cache is not consulted.
getCategoriesMapAlwaysFetch(cc, remote, fetchOk) ==
  IF fetchOk
  THEN [threw |-> FALSE, cache |-> CategoriesMapOf(remote), fetched |-> TRUE]
  ELSE [threw |-> TRUE, cache |-> cc, fetched |-> TRUE]

\* getCategoriesMap: the cache when there is one, else one GET; a failed GET
\* throws and leaves the cache empty.
getCategoriesMap(cc, remote, fetchOk) ==
  IF cc.loaded THEN [threw |-> FALSE, cache |-> cc, fetched |-> FALSE]
  ELSE IF fetchOk
       THEN [threw |-> FALSE, cache |-> CategoriesMapOf(remote), fetched |-> TRUE]
       ELSE [threw |-> TRUE, cache |-> cc, fetched |-> TRUE]

\* Mutant of getCategoryId: the guard on an empty name is missing.
getCategoryIdNoGuard(cc, remote, fetchOk, categoryName) ==
  LET m == getCategoriesMap(cc, remote, fetchOk)
  IN [threw |-> m.threw,
      id |-> IF m.threw \/ categoryName = Null THEN Null
             ELSE CategoryLookup(m.cache.map, LowerName(categoryName)),
      cache |-> m.cache,
      fetched |-> m.fetched]

getCategoryId(cc, remote, fetchOk, categoryName) ==
  IF categoryName = Null
  THEN [threw |-> FALSE, id |-> Null, cache |-> cc, fetched |-> FALSE]
  ELSE LET m == getCategoriesMap(cc, remote, fetchOk)
       IN [threw |-> m.threw,
           id |-> IF m.threw THEN Null
                  ELSE CategoryLookup(m.cache.map, LowerName(categoryName)),
           cache |-> m.cache,
           fetched |-> m.fetched]

(***************************************************************************)
(* Categorization engine (categorize.js).                                  *)
(***************************************************************************)
\* The longest payee kept by sanitizePayee.
MaxPayeeLength == 255

sanitizePayee(payee) ==
  IF payee = <<>> THEN <<>>
  ELSE substring0(trim(StripChars(payee, DangerousChars)), MaxPayeeLength)

NotLoaded == [loaded |-> FALSE, data |-> <<>>]

\* Index of the first entry of o, in enumeration order, whose lower-cased
\* key is contained in lowerPayee; 0 when there is none.
FirstContained(o, lowerPayee) ==
  LET hits == {i \in 1..Len(o) : includes(lowerPayee, toLowerCase(o[i][1]))}
  IN IF hits = {} THEN 0 ELSE CHOOSE i \in hits : \A j \in hits : i <= j

\* Mutant of MatchCategory: the memory is consulted before the manual rules.
MatchCategoryMemoryFirst(sanitizedPayee, categoryRules, memory) ==
  LET lowerPayee == toLowerCase(sanitizedPayee)
      r == FirstContained(categoryRules, lowerPayee)
      e == FirstContained(memory, lowerPayee)
      match == findBestMatch(sanitizedPayee, ObjectKeys(memory))
  IN IF e > 0
     THEN [categoryName |-> memory[e][2], matchSource |-> "memory_exact"]
     ELSE IF r > 0
     THEN [categoryName |-> categoryRules[r][2], matchSource |-> "config_rule"]
     ELSE IF Len(memory) > 0 /\ FuzzyThresholdMet(match.rating)
     THEN [categoryName |-> ObjGet(memory, match.target),
           matchSource |-> "memory_fuzzy"]
     ELSE [categoryName |-> Null, matchSource |-> Null]

\* Steps 1 to 3 of assignCategoryId: the category name and where it came from.
MatchCategory(sanitizedPayee, categoryRules, memory) ==
  LET lowerPayee == toLowerCase(sanitizedPayee)
      r == FirstContained(categoryRules, lowerPayee)
      e == FirstContained(memory, lowerPayee)
      match == findBestMatch(sanitizedPayee, ObjectKeys(memory))
  IN IF r > 0
     THEN [categoryName |-> categoryRules[r][2], matchSource |-> "config_rule"]
     ELSE IF e > 0
     THEN [categoryName |-> memory[e][2], matchSource |-> "memory_exact"]
     ELSE IF Len(memory) > 0 /\ FuzzyThresholdMet(match.rating)
     THEN [categoryName |-> ObjGet(memory, match.target),
           matchSource |-> "memory_fuzzy"]
     ELSE [categoryName |-> Null, matchSource |-> Null]

\* Mutant of ShouldLearn: the entry the memory already has is not compared.
ShouldLearnAgain(m, memory, sanitizedPayee) ==
  /\ m.categoryName # Null
  /\ m.matchSource # "config_rule"

\* Mutant of ShouldLearn: a manual rule match is learned like any other.
ShouldLearnAnySource(m, memory, sanitizedPayee) ==
  /\ m.categoryName # Null
  /\ ObjGet(memory, sanitizedPayee) # m.categoryName

\* Step 4: whether the match is written back to the memory.
ShouldLearn(m, memory, sanitizedPayee) ==
  /\ m.categoryName # Null
  /\ m.matchSource # "config_rule"
  /\ ObjGet(memory, sanitizedPayee) # m.categoryName

\* The JavaScript value null where an object is expected (config.json may
\* say "category_rules": null); told from every object by its domain.
NullObject == [i \in {0} |-> "null"]
IsNullObject(o) == 0 \in DOMAIN o

\* assignCategoryId(token, payee, categoryRules) run on the module state
\* (mc = memoryCache, cc = categoriesCache) and the environment (the memory
\* file, the remote category list, whether the write and the GET succeed).
\* threw: the call raised (Object.entries of null rules); fetchFailed: the
\* GET of the categories failed and the error was caught and logged.
assignCategoryId(payee, categoryRules, mc, cc, file, remote, writeOk, fetchOk) ==
  LET sanitizedPayee == sanitizePayee(payee)
      early == [result |-> Null, categoryName |-> Null, matchSource |-> Null,
                sanitizedPayee |-> sanitizedPayee,
                memoryCache |-> mc, categoriesCache |-> cc, memoryFile |-> file,
                saved |-> FALSE, fetched |-> FALSE,
                threw |-> FALSE, fetchFailed |-> FALSE]
  IN IF payee = <<>> \/ sanitizedPayee = <<>> THEN early
     ELSE IF IsNullObject(categoryRules)
     THEN [early EXCEPT
             !.memoryCache =
                [loaded |-> TRUE,
                 data |-> IF mc.loaded THEN mc.data ELSE loadMemory(file)],
             !.threw = TRUE]
     ELSE
       LET memory == IF mc.loaded THEN mc.data ELSE loadMemory(file)
           m == MatchCategory(sanitizedPayee, categoryRules, memory)
           learn == ShouldLearn(m, memory, sanitizedPayee)
           memory2 == IF learn THEN ObjSet(memory, sanitizedPayee, m.categoryName)
                      ELSE memory
           file2 == IF learn THEN saveMemory(file, memory2, writeOk) ELSE file
           g == getCategoryId(cc, remote, fetchOk, m.categoryName)
       IN [result |-> g.id,
           categoryName |-> m.categoryName,
           matchSource |-> m.matchSource,
           sanitizedPayee |-> sanitizedPayee,
           memoryCache |-> [loaded |-> TRUE, data |-> memory2],
           categoriesCache |-> g.cache,
           memoryFile |-> file2,
           saved |-> learn,
           fetched |-> g.fetched,
           threw |-> FALSE,
           fetchFailed |-> g.threw]

(***************************************************************************)
(* Memory rebuild from the Lunch Money history (learnLunchMoney.js).  A    *)
(* historical transaction is its payee and its category name, both         *)
(* strings ('' where the API gave none); categoryStats is an object of     *)
(* objects of counts.                                                      *)
(***************************************************************************)
\* The body of the first loop for one transaction.
CountTransaction(categoryStats, tx) ==
  IF tx.payee # <<>> /\ tx.category_name # <<>>
     /\ trim(tx.payee) # <<>> /\ trim(tx.category_name) # <<>>
  THEN LET payee == trim(tx.payee)
           category == trim(tx.category_name)
           categories == IF HasKey(categoryStats, payee)
                         THEN ObjGet(categoryStats, payee) ELSE <<>>
           count == IF HasKey(categories, category)
                    THEN ObjGet(categories, category) ELSE 0
       IN ObjSet(categoryStats, payee, ObjSet(categories, category, count + 1))
  ELSE categoryStats

RECURSIVE CategoryStats(_)
\* categoryStats after the first loop over the history.
CategoryStats(history) ==
  IF history = <<>> THEN <<>>
  ELSE CountTransaction(CategoryStats(SubSeq(history, 1, Len(history) - 1)),
                        history[Len(history)])

RECURSIVE MostFrequentLast(_)
\* Mutant of MostFrequent: a category that ties the highest count replaces
\* the preferred one (count >= maxCount).
MostFrequentLast(categories) ==
  IF categories = <<>> THEN [maxCount |-> 0, preferredCategory |-> NullString]
  ELSE LET prev == MostFrequentLast(SubSeq(categories, 1, Len(categories) - 1))
           entry == categories[Len(categories)]
       IN IF entry[2] >= prev.maxCount
          THEN [maxCount |-> entry[2], preferredCategory |-> entry[1]]
          ELSE prev

RECURSIVE MostFrequent(_)
\* The inner loop over Object.entries(categories): count > maxCount.
MostFrequent(categories) ==
  IF categories = <<>> THEN [maxCount |-> 0, preferredCategory |-> NullString]
  ELSE LET prev == MostFrequent(SubSeq(categories, 1, Len(categories) - 1))
           entry == categories[Len(categories)]
       IN IF entry[2] > prev.maxCount
          THEN [maxCount |-> entry[2], preferredCategory |-> entry[1]]
          ELSE prev

RECURSIVE MemoryOfStats(_)
\* The second loop: a payee is learned when its preferred category was
\* counted at least twice.
MemoryOfStats(categoryStats) ==
  IF categoryStats = <<>> THEN <<>>
  ELSE LET memory == MemoryOfStats(SubSeq(categoryStats, 1, Len(categoryStats) - 1))
           payee == categoryStats[Len(categoryStats)][1]
           best == MostFrequent(categoryStats[Len(categoryStats)][2])
       IN IF best.preferredCategory # NullString /\ best.maxCount >= 2
          THEN ObjSet(memory, payee, best.preferredCategory)
          ELSE memory

\* The memory buildMemoryFromLunchMoney returns for a fetched history.
buildMemoryFromLunchMoney(history) == MemoryOfStats(CategoryStats(history))

(***************************************************************************)
(* Sync utilities (sync.js, lines 323-469) and the target fetch.           *)
(* Amounts are numbers in thousandths of the currency unit; dates are      *)
(* the fixed-width strings YYYY-MM-DD.                                     *)
(***************************************************************************)
\* Retries given to withRetry by sync: the two fetches and each insertion.
FetchRetries == 3
InsertRetries == 3

\* const batchSize = 50.
BatchSize == 50

\* What a failed request throws: an error carrying an HTTP response with a
\* status, or one without a response (connection refused, timeout).
NetworkError == [response |-> FALSE, status |-> 0]
HttpError(status) == [response |-> TRUE, status |-> status]
RequestErrors == {NetworkError, HttpError(500), HttpError(429), HttpError(400)}

shouldRetryHttpError(error) ==
  IF ~error.response THEN TRUE
  ELSE error.status >= 500 \/ error.status = 429

\* Mutant of withRetryGoesOn: the last attempt is told one attempt late.
withRetryGoesOnOnceMore(attempt, maxRetries, hasShouldRetry, error) ==
  /\ attempt # maxRetries + 1
  /\ hasShouldRetry => shouldRetryHttpError(error)

\* The catch block of withRetry after the attempt numbered `attempt` (from
\* 0) threw `error`: whether it sleeps and goes round the loop again rather
\* than break.  hasShouldRetry: a shouldRetry function was passed, which in
\* this code is always shouldRetryHttpError.
withRetryGoesOn(attempt, maxRetries, hasShouldRetry, error) ==
  /\ attempt # maxRetries
  /\ hasShouldRetry => shouldRetryHttpError(error)

\* withRetry after the attempt numbered `attempt` (from 0) threw `error`:
\* sleep and try again, or rethrow.
withRetryRetries(attempt, maxRetries, error) ==
  attempt # maxRetries /\ shouldRetryHttpError(error)

\* fetchTransactions rethrows any failure as a new Error with a message only.
WrappedError(error) == NetworkError

\* Number(x).toFixed(2), as the number the two-decimal string denotes
\* (amounts in the model never sit on a half cent).
toFixed2(amount) ==
  IF amount >= 0 THEN ((amount + 5) \div 10) * 10
  ELSE 0 - (((0 - amount) + 5) \div 10) * 10

\* `${date}-${Number(amount).toFixed(2)}`
SimpleKey(date, amount) == <<date, "-", ToString(toFixed2(amount))>>

\* Mutant of generateTransactionFingerprint: the reference is left out.
generateTransactionFingerprintNoReference(transaction) ==
  <<transaction.date, "-", ToString(transaction.amount), "-">>
    \o transaction.payee \o <<"-">>

\* generateTransactionFingerprint: the digest stands for the key it hashes,
\* `${date}-${amount}-${payee}-${reference || ''}`.
generateTransactionFingerprint(transaction) ==
  <<transaction.date, "-", ToString(transaction.amount), "-">>
    \o transaction.payee \o <<"-">> \o transaction.reference

\* Mutant of batchArray: only the first slice is made.
batchArrayFirstOnly(array, batchSize) ==
  IF Len(array) = 0 THEN <<>>
  ELSE <<SubSeq(array, 1, Min(Len(array), batchSize))>>

RECURSIVE batchArray(_, _)
batchArray(array, batchSize) ==
  IF Len(array) = 0 THEN <<>>
  ELSE IF Len(array) <= batchSize THEN <<array>>
  ELSE <<SubSeq(array, 1, batchSize)>>
         \o batchArray(SubSeq(array, batchSize + 1, Len(array)), batchSize)

\* The dates of the model; the sync window [today - daysToSync, today]
\* holds the second only.
Dates == {"2024-01-01", "2024-02-01"}
SyncWindow == {"2024-02-01"}

InWindow(transaction) == transaction.date \in SyncWindow

SelectInWindow(transactions) == SelectSeq(transactions, InWindow)

\* Mutant of fetchTransactions: the response is read as having no
\* transactions.
fetchTransactionsNone(ledger) == <<>>

\* fetchTransactions: the account's transactions dated in the window, each
\* reduced to its date and its parsed amount.
fetchTransactions(ledger) ==
  LET inWindow == SelectInWindow(ledger)
  IN [i \in 1..Len(inWindow) |->
        [date |-> inWindow[i].date, amount |-> inWindow[i].amount]]

\* The two sets sync builds from the fetched transactions; the fetched
\* records have no payee, external_id or id.
ExistingSimpleKeys(existing) ==
  {SimpleKey(existing[i].date, existing[i].amount) : i \in 1..Len(existing)}

ExistingFingerprints(existing) ==
  {generateTransactionFingerprint([date |-> existing[i].date,
                                   amount |-> existing[i].amount,
                                   payee |-> <<>>,
                                   reference |-> <<>>]) : i \in 1..Len(existing)}

MovementFingerprint(movement) ==
  generateTransactionFingerprint([date |-> movement.date,
                                  amount |-> movement.amount,
                                  payee |-> movement.payee,
                                  reference |-> movement.reference])

\* Mutant of IsDuplicate: only the fingerprint is consulted.
IsDuplicateFingerprintOnly(movement, simpleKeys, fingerprints) ==
  MovementFingerprint(movement) \in fingerprints

\* The duplicate test of the processing loop.
IsDuplicate(movement, simpleKeys, fingerprints) ==
  \/ SimpleKey(movement.date, movement.amount) \in simpleKeys
  \/ MovementFingerprint(movement) \in fingerprints

\* The method reported for a skipped duplicate.
DuplicateMethod(movement, fingerprints) ==
  IF MovementFingerprint(movement) \in fingerprints THEN "fingerprint"
  ELSE "simple"

\* The transaction built for a new movement (currency and asset_id are
\* configuration constants); origin is the movement's position in the
\* source, carried to tell afterwards where a target transaction came from.
BuildTransaction(movement, categoryId, origin) ==
  [date |-> movement.date,
   amount |-> toFixed2(movement.amount),
   payee |-> movement.payee,
   category_id |-> categoryId,
   external_id |-> movement.reference,
   origin |-> origin]

(***************************************************************************)
(* State.                                                                  *)
(***************************************************************************)
VARIABLES
  memoryCache,       \* categorize.js: let memoryCache (null until loaded)
  categoriesCache,   \* categorize.js: let categoriesCache (null until fetched)
  memoryFile,        \* categorization_memory.json
  remoteCategories,  \* the category list of the Lunch Money account
  callPc,            \* "idle", or "returned" right after assignCategoryId
  lastCall,          \* arguments, pre-state and outcome of that call
  nCalls,            \* calls of assignCategoryId made so far
  config,            \* the configuration sync is given
  source,            \* the movements the source returns for the period
  account,           \* the transactions of the Lunch Money account
  editedSince,       \* the account was edited by hand since the last run
  nRuns,             \* runs of sync finished so far
  lastRun,           \* what the last finished run was given and returned
  pc,                \* where sync is: "idle", "fetch_source",
                     \* "fetch_existing", "process", "insert", "done"
  dryRun,            \* sync's option
  attempt,           \* withRetry's attempt counter of the current request
  movements,         \* sync's locals, as named in the code
  existing,
  existingSimpleKeys,
  existingFingerprints,
  newTransactions,
  skippedDuplicates,
  processingErrors,
  outcomes,          \* how each movement processed so far was classified
  batchIndex,        \* i of the insertion loop
  totalInserted,
  insertionErrors,
  result,            \* what sync returned, while pc = "done"
  failure,           \* which fetch of the run failed for good, if any
  chosen,            \* the category name chosen for each movement processed
  lastError,         \* withRetry: the failure of the last attempt that threw
  server             \* server.js: the sync runs of its two entry points and
                     \* the memory of the last completed rebuild

catVars == <<memoryCache, categoriesCache, memoryFile, remoteCategories,
             callPc, lastCall, nCalls>>

worldVars == <<config, source, account, editedSince, nRuns, lastRun>>

localVars == <<dryRun, attempt, movements, existing, existingSimpleKeys,
               existingFingerprints, newTransactions, skippedDuplicates,
               processingErrors, outcomes, batchIndex, totalInserted,
               insertionErrors, result, failure, chosen, lastError>>

syncVars == <<worldVars, pc, localVars>>

vars == <<catVars, syncVars, server>>

(***************************************************************************)
(* Inputs of the categorization model.                                     *)
(***************************************************************************)
\* Raw payees: every string of at most two letters or digits, and strings
\* that sanitizing changes.
CleanChars == {"a", "A", "1"}

Payees ==
  {<<>>} \cup {<<c>> : c \in CleanChars}
         \cup {<<c, d>> : c \in CleanChars, d \in CleanChars}
         \cup { <<"<">>, <<" ">>, <<"<", " ">>, <<"<", "a">>, <<"a", " ">>,
                <<" ", "1">>, <<"A", "<">> }

\* category_rules members as written in config.json, in file order.
RuleMembers == { <<(<<"A">>), "Food">>, <<(<<"1">>), "Shop">> }

WrittenRules ==
  {<<>>} \cup {<<m>> : m \in RuleMembers}
         \cup {<<m, n>> : m \in RuleMembers, n \in RuleMembers}

\* Memories a file holds before the first call (learned by an earlier
\* process or rebuilt from history), as the objects JSON.parse returns.
InitialMemories ==
  { <<>>,
    ObjFromPairs(<< <<(<<"a">>), "Shop">> >>),
    ObjFromPairs(<< <<(<<"1">>), "Food">> >>),
    ObjFromPairs(<< <<(<<"a", "a", "a">>), "Shop">> >>),
    ObjFromPairs(<< <<(<<"A", "a", "1">>), "Food">> >>),
    ObjFromPairs(<< <<(<<"a">>), "Shop">>, <<(<<"1">>), "Food">> >>),
    ObjFromPairs(<< <<(<<"A", "a", "1">>), "Food">>, <<(<<"a", "a", "a">>), "Shop">> >>) }

InitialFiles == {NoFile, CorruptFile} \cup {FileOf(m) : m \in InitialMemories}

\* The category list of the account: "Food" exists, "Shop" was deleted.
\* Ids are opaque (and truthy); they are written as strings.
CategoryLists == { << [name |-> "Food", id |-> "101"] >> }

NoCall == [called |-> FALSE]

\* What sync returns when it gives up early: nothing.
Undefined == [kind |-> "undefined"]

\* Before the first run there is no last run.
NoRun == [dryRun |-> FALSE, result |-> [kind |-> "none"]]

\* withRetry's lastError while no attempt has thrown.
NoError == [response |-> FALSE, status |-> 0 - 1]

\* The server process is not running (the CLI is used).
ServerOff == [on |-> FALSE]

\* sync's locals before a run starts and after it returned.
NoLocals ==
  /\ dryRun = FALSE
  /\ attempt = 0
  /\ movements = <<>>
  /\ existing = <<>>
  /\ existingSimpleKeys = {}
  /\ existingFingerprints = {}
  /\ newTransactions = <<>>
  /\ skippedDuplicates = <<>>
  /\ processingErrors = <<>>
  /\ outcomes = <<>>
  /\ batchIndex = 0
  /\ totalInserted = 0
  /\ insertionErrors = <<>>
  /\ result = Undefined
  /\ failure = "none"
  /\ chosen = <<>>
  /\ lastError = NoError

(***************************************************************************)
(* The categorization model: calls of assignCategoryId in one process,     *)
(* and process restarts.                                                   *)
(***************************************************************************)
CatInit ==
  /\ memoryCache = NotLoaded
  /\ categoriesCache = NoCategories
  /\ memoryFile \in InitialFiles
  /\ remoteCategories \in CategoryLists
  /\ callPc = "idle"
  /\ lastCall = NoCall
  /\ nCalls = 0
  /\ config = [categoryRules |-> <<>>]
  /\ source = <<>>
  /\ account = <<>>
  /\ editedSince = FALSE
  /\ nRuns = 0
  /\ lastRun = NoRun
  /\ pc = "idle"
  /\ NoLocals
  /\ server = ServerOff

\* The memory a lookup sees: the cache, or the file if nothing is cached yet.
EffectiveMemory(mc, file) == IF mc.loaded THEN mc.data ELSE loadMemory(file)

\* Whether writeFileSync succeeds, where a call can reach it at all (nothing
\* is learned from an empty memory).
WriteOutcomes ==
  IF EffectiveMemory(memoryCache, memoryFile) = <<>> THEN {TRUE} ELSE BOOLEAN

\* Whether the GET of the categories succeeds, where a call can reach it.
FetchOutcomes == IF categoriesCache.loaded THEN {TRUE} ELSE BOOLEAN

\* One call assignCategoryId(token, payee, ObjFromPairs(written)).
CallAssignCategory ==
  /\ callPc = "idle"
  /\ nCalls < MaxCalls
  /\ \E payee \in Payees, written \in WrittenRules,
        writeOk \in WriteOutcomes, fetchOk \in FetchOutcomes :
       LET r == assignCategoryId(payee, ObjFromPairs(written), memoryCache,
                                 categoriesCache, memoryFile, remoteCategories,
                                 writeOk, fetchOk)
       IN /\ memoryCache' = r.memoryCache
          /\ categoriesCache' = r.categoriesCache
          /\ memoryFile' = r.memoryFile
          /\ lastCall' = [called |-> TRUE,
                          written |-> written,
                          persisted |-> r.saved /\ writeOk,
                          memoryCacheBefore |-> memoryCache,
                          categoriesCacheBefore |-> categoriesCache,
                          memoryFileBefore |-> memoryFile,
                          sanitizedPayee |-> r.sanitizedPayee,
                          categoryName |-> r.categoryName,
                          matchSource |-> r.matchSource,
                          result |-> r.result,
                          saved |-> r.saved,
                          fetched |-> r.fetched,
                          threw |-> r.threw,
                          fetchFailed |-> r.fetchFailed]
  /\ callPc' = "returned"
  /\ nCalls' = nCalls + 1
  /\ UNCHANGED <<remoteCategories, syncVars, server>>

\* The caller takes the result; the call's locals are gone.
ReturnFromCall ==
  /\ callPc = "returned"
  /\ callPc' = "idle"
  /\ lastCall' = NoCall
  /\ UNCHANGED <<memoryCache, categoriesCache, memoryFile, remoteCategories, nCalls>>
  /\ UNCHANGED <<syncVars, server>>

\* The process exits and a new one starts: module-level caches are null again.
RestartProcess ==
  /\ callPc = "idle"
  /\ pc = "idle"
  /\ \/ nCalls > 0 /\ nCalls < MaxCalls
     \/ nRuns > 0 /\ nRuns < MaxRuns
  /\ (memoryCache.loaded \/ categoriesCache.loaded)
  /\ memoryCache' = NotLoaded
  /\ categoriesCache' = NoCategories
  /\ UNCHANGED <<memoryFile, remoteCategories, callPc, lastCall, nCalls>>
  /\ UNCHANGED <<syncVars, server>>

CatNext == CallAssignCategory \/ ReturnFromCall \/ RestartProcess

SpecCat == CatInit /\ [][CatNext]_vars

(***************************************************************************)
(* The sync model: runs of sync({config, dryRun}) against one source and   *)
(* one Lunch Money account, one after the other (sync.js, lines 22-318;    *)
(* the Fintoc variant in categorize.js, lines 219-507, has the same        *)
(* steps).                                                                 *)
(***************************************************************************)
\* config.categoryRules, with one rule or null (as loadConfig admits it
\* from config.json), and the memory file the runs start from.
CategoryRules == ObjFromPairs(<< <<(<<"A">>), "Food">> >>)
Configs == { [categoryRules |-> CategoryRules], [categoryRules |-> NullObject] }
SyncInitialFiles == { FileOf(ObjFromPairs(<< <<(<<"1">>), "Shop">> >>)) }

Movement(date, amount, payee, reference) ==
  [date |-> date, amount |-> amount, payee |-> payee, reference |-> reference]

\* Movements of the source: two of the same day and amount with different
\* payees (one with a message reference), one of another amount, one dated
\* before the sync window.
CoffeeA == Movement("2024-02-01", 1000, <<"a">>, <<>>)
CoffeeB == Movement("2024-02-01", 1000, <<"1", "1">>, <<"g", "1">>)
Lunch == Movement("2024-02-01", 2000, <<"a">>, <<>>)
Old == Movement("2024-01-01", 1000, <<"a">>, <<>>)

Sources ==
  { <<>>, <<CoffeeA>>, <<CoffeeB>>, <<Old>>,
    <<CoffeeA, CoffeeA>>, <<CoffeeA, CoffeeB>>,
    <<CoffeeA, Lunch>>, <<Lunch, Old>> }

\* A transaction entered in Lunch Money by hand: 1.004 on the day of the
\* coffees.
ByHand ==
  [date |-> "2024-02-01", amount |-> 1004, payee |-> <<"x">>,
   category_id |-> Null, external_id |-> <<>>, origin |-> 0]

InitialAccounts == { <<>>, <<ByHand>> }

Summary(success, processed, inserted, skipped, errors, isDryRun) ==
  [kind |-> "summary", success |-> success, processed |-> processed,
   inserted |-> inserted, skipped |-> skipped, errors |-> errors,
   dryRun |-> isDryRun]

Init ==
  /\ memoryCache = NotLoaded
  /\ categoriesCache = NoCategories
  /\ memoryFile \in SyncInitialFiles
  /\ remoteCategories \in CategoryLists
  /\ callPc = "idle"
  /\ lastCall = NoCall
  /\ nCalls = 0
  /\ config \in Configs
  /\ source \in Sources
  /\ account \in InitialAccounts
  /\ editedSince = FALSE
  /\ nRuns = 0
  /\ lastRun = NoRun
  /\ pc = "idle"
  /\ NoLocals
  /\ server = ServerOff

\* return <value>: the run is over, its locals still in view.
Return(value) ==
  /\ pc' = "done"
  /\ result' = value

\* sync({config, dryRun: d}) is called.
StartSync ==
  /\ pc = "idle"
  /\ callPc = "idle"
  /\ nRuns < MaxRuns
  /\ \E d \in BOOLEAN : dryRun' = d
  /\ pc' = "fetch_source"
  /\ UNCHANGED <<catVars, worldVars>>
  /\ UNCHANGED <<server, lastError, failure, chosen, attempt, movements, existing, existingSimpleKeys,
                 existingFingerprints, newTransactions, skippedDuplicates,
                 processingErrors, outcomes, batchIndex, totalInserted,
                 insertionErrors, result>>

\* One attempt of the source fetch under withRetry(.., 3, 1000,
\* shouldRetryHttpError), and what follows it: a failure that is not
\* retried is logged and leaves movements empty; with no movements sync
\* returns nothing.
FetchSource ==
  /\ pc = "fetch_source"
  /\ \/ /\ movements' = source
        /\ IF source = <<>>
           THEN Return(Undefined) /\ UNCHANGED attempt
           ELSE pc' = "fetch_existing" /\ attempt' = 0 /\ UNCHANGED result
        /\ lastError' = NoError
        /\ UNCHANGED failure
     \/ \E error \in RequestErrors :
          /\ UNCHANGED movements
          /\ lastError' = error
          /\ IF withRetryRetries(attempt, FetchRetries, error)
             THEN attempt' = attempt + 1 /\ UNCHANGED <<pc, result, failure>>
             ELSE Return(Undefined) /\ failure' = "source" /\ UNCHANGED attempt
  /\ UNCHANGED <<catVars, worldVars>>
  /\ UNCHANGED <<server, chosen, dryRun, existing, existingSimpleKeys, existingFingerprints,
                 newTransactions, skippedDuplicates, processingErrors,
                 outcomes, batchIndex, totalInserted, insertionErrors>>

\* Mutant of ExistingFetchFailed: the run goes on, deduplicating against
\* nothing.
ExistingFetchFailedGoesOn ==
  /\ pc' = "process"
  /\ failure' = "existing"
  /\ attempt' = 0
  /\ UNCHANGED result

\* The catch around the fetch of the existing transactions: log, return.
ExistingFetchFailed ==
  /\ Return(Undefined)
  /\ failure' = "existing"
  /\ UNCHANGED attempt

\* One attempt of fetchTransactions under withRetry, and the building of
\* the two sets; if the fetch fails for good sync returns nothing.
FetchExisting ==
  /\ pc = "fetch_existing"
  /\ \/ /\ existing' = fetchTransactions(account)
        /\ existingSimpleKeys' = ExistingSimpleKeys(fetchTransactions(account))
        /\ existingFingerprints' =
             ExistingFingerprints(fetchTransactions(account))
        /\ pc' = "process"
        /\ attempt' = 0
        /\ lastError' = NoError
        /\ UNCHANGED <<result, failure>>
     \/ \E error \in RequestErrors :
          /\ UNCHANGED <<existing, existingSimpleKeys, existingFingerprints>>
          /\ lastError' = error
          /\ IF withRetryRetries(attempt, FetchRetries, WrappedError(error))
             THEN attempt' = attempt + 1 /\ UNCHANGED <<pc, result, failure>>
             ELSE ExistingFetchFailed
  /\ UNCHANGED <<catVars, worldVars>>
  /\ UNCHANGED <<server, chosen, dryRun, movements, newTransactions, skippedDuplicates,
                 processingErrors, outcomes, batchIndex, totalInserted,
                 insertionErrors>>

\* Mutant of AddKey: a new movement's key is not remembered.
AddKeyForgotten(keys, key) == keys

\* Set.prototype.add on one of the two tracking sets.
AddKey(keys, key) == keys \cup {key}

\* Mutant of CatchCategorization: the error is swallowed unrecorded.
CatchCategorizationSilent(errors, i, threw) == errors

\* Mutant of CatchCategorization: the error is recorded as the outer catch
\* records the error of a movement that was given up.
CatchCategorizationAsProcessing(errors, i, threw) ==
  IF threw THEN Append(errors, [origin |-> i, step |-> "processing"])
  ELSE errors

\* The catch around the categorization of movement i: a thrown error is
\* pushed to processingErrors with step "categorization".
CatchCategorization(errors, i, threw) ==
  IF threw THEN Append(errors, [origin |-> i, step |-> "categorization"])
  ELSE errors

\* One iteration of the processing loop, on movements[Len(outcomes) + 1].
\* assignCategoryId runs under withRetry(.., 2, 500): when it throws, each
\* of the three attempts throws alike, the error is recorded with step
\* "categorization" and the transaction is built without a category.
\* Building the transaction cannot fail on what the fetchers return.
ProcessMovement ==
  /\ pc = "process"
  /\ Len(outcomes) < Len(movements)
  /\ LET i == Len(outcomes) + 1
         movement == movements[i]
     IN IF IsDuplicate(movement, existingSimpleKeys, existingFingerprints)
        THEN /\ skippedDuplicates' =
                  Append(skippedDuplicates,
                         [date |-> movement.date,
                          amount |-> toFixed2(movement.amount),
                          payee |-> movement.payee,
                          method |-> DuplicateMethod(movement, existingFingerprints)])
             /\ outcomes' =
                  Append(outcomes, DuplicateMethod(movement, existingFingerprints))
             /\ chosen' = Append(chosen, Null)
             /\ UNCHANGED <<memoryCache, categoriesCache, memoryFile,
                            newTransactions, existingSimpleKeys,
                            existingFingerprints, processingErrors>>
        ELSE \E writeOk \in WriteOutcomes, fetchOk \in FetchOutcomes :
               LET r == assignCategoryId(movement.payee, config.categoryRules,
                                         memoryCache, categoriesCache,
                                         memoryFile, remoteCategories,
                                         writeOk, fetchOk)
               IN /\ memoryCache' = r.memoryCache
                  /\ categoriesCache' = r.categoriesCache
                  /\ memoryFile' = r.memoryFile
                  /\ processingErrors' =
                       CatchCategorization(processingErrors, i, r.threw)
                  /\ chosen' = Append(chosen, r.categoryName)
                  /\ newTransactions' =
                       Append(newTransactions,
                              BuildTransaction(movement, r.result, i))
                  /\ existingSimpleKeys' =
                       AddKey(existingSimpleKeys,
                              SimpleKey(movement.date, movement.amount))
                  /\ existingFingerprints' =
                       AddKey(existingFingerprints, MovementFingerprint(movement))
                  /\ outcomes' = Append(outcomes, "new")
                  /\ UNCHANGED skippedDuplicates
  /\ UNCHANGED <<remoteCategories, callPc, lastCall, nCalls, worldVars, pc>>
  /\ UNCHANGED <<server, lastError, failure, dryRun, attempt, movements, existing,
                 batchIndex, totalInserted, insertionErrors, result>>

\* Mutant of AfterLoop: the dryRun option is not looked at.
AfterLoopIgnoresDryRun(n, isDryRun) ==
  IF n = 0 THEN "nothing_new" ELSE "insert"

\* The two tests after the loop, on the number of new transactions and
\* the dryRun option, in the order of the code.
AfterLoop(n, isDryRun) ==
  IF n = 0 THEN "nothing_new"
  ELSE IF isDryRun THEN "preview"
  ELSE "insert"

\* Mutant of LoopFinished: the loop is left after its first iteration.
LoopFinishedAfterFirst(nProcessed, nMovements) == nProcessed >= 1

\* for (const m of movements) is over when every movement had its turn.
LoopFinished(nProcessed, nMovements) == nProcessed = nMovements

\* After the loop: nothing new, a dry run, or on to the insertion.
AfterProcessing ==
  /\ pc = "process"
  /\ LoopFinished(Len(outcomes), Len(movements))
  /\ LET next == AfterLoop(Len(newTransactions), dryRun)
     IN IF next = "nothing_new"
        THEN Return(Summary(TRUE, Len(movements), 0, Len(skippedDuplicates),
                            Len(processingErrors), FALSE))
        ELSE IF next = "preview"
        THEN Return(Summary(TRUE, Len(movements), Len(newTransactions),
                            Len(skippedDuplicates), Len(processingErrors), TRUE))
        ELSE pc' = "insert" /\ UNCHANGED result
  /\ UNCHANGED <<catVars, worldVars>>
  /\ UNCHANGED <<server, lastError, failure, chosen, dryRun, attempt, movements, existing, existingSimpleKeys,
                 existingFingerprints, newTransactions, skippedDuplicates,
                 processingErrors, outcomes, batchIndex, totalInserted,
                 insertionErrors>>

\* What a POST of a batch can do: succeed; fail before the account took
\* the batch; or, the account took it and the response never came.  The
\* model loses the response of a first attempt only.
InsertOutcomes(n) ==
  {[applied |-> TRUE, failed |-> FALSE, error |-> NetworkError]}
  \cup {[applied |-> FALSE, failed |-> TRUE, error |-> e] : e \in RequestErrors}
  \cup (IF n = 0
        THEN {[applied |-> TRUE, failed |-> TRUE, error |-> NetworkError]}
        ELSE {})

\* What a run gives its caller if an error escapes sync.
Thrown == [kind |-> "thrown"]

\* Mutant of CatchInsertion: the error of a failed batch is thrown on.
CatchInsertionRethrows(errors, i, size) ==
  [thrown |-> TRUE, insertionErrors |-> errors]

\* The catch around the insertion of batch i: the error is pushed to
\* insertionErrors and the loop goes on.
CatchInsertion(errors, i, size) ==
  [thrown |-> FALSE,
   insertionErrors |-> Append(errors, [batchIndex |-> i, batchSize |-> size])]

\* Mutant of AfterFailedBatch: a failed batch ends the insertion loop.
AfterFailedBatchStops(i, n) == n

\* The loop index after batch i of n failed.
AfterFailedBatch(i, n) == i + 1

\* One attempt of the POST of batches[batchIndex] under withRetry(.., 3,
\* 1000, shouldRetryHttpError); skip_duplicates is false, the account
\* stores whatever it is sent.
InsertBatch ==
  /\ pc = "insert"
  /\ batchIndex < Len(batchArray(newTransactions, BatchSize))
  /\ LET batch == batchArray(newTransactions, BatchSize)[batchIndex + 1]
     IN \E o \in InsertOutcomes(attempt) :
          /\ account' = IF o.applied THEN account \o batch ELSE account
          /\ lastError' = IF o.failed /\ withRetryRetries(attempt, InsertRetries, o.error)
                          THEN o.error ELSE NoError
          /\ IF ~o.failed
             THEN /\ totalInserted' = totalInserted + Len(batch)
                  /\ batchIndex' = batchIndex + 1
                  /\ attempt' = 0
                  /\ UNCHANGED <<insertionErrors, pc, result>>
             ELSE IF withRetryRetries(attempt, InsertRetries, o.error)
             THEN /\ attempt' = attempt + 1
                  /\ UNCHANGED <<totalInserted, batchIndex, insertionErrors,
                                 pc, result>>
             ELSE LET c == CatchInsertion(insertionErrors, batchIndex, Len(batch))
                  IN /\ insertionErrors' = c.insertionErrors
                     /\ UNCHANGED totalInserted
                     /\ IF c.thrown
                        THEN Return(Thrown) /\ UNCHANGED <<batchIndex, attempt>>
                        ELSE /\ batchIndex' =
                                  AfterFailedBatch(batchIndex,
                                    Len(batchArray(newTransactions, BatchSize)))
                             /\ attempt' = 0
                             /\ UNCHANGED <<pc, result>>
  /\ UNCHANGED <<catVars, config, source, editedSince, nRuns, lastRun>>
  /\ UNCHANGED <<server, failure, chosen, dryRun, movements, existing, existingSimpleKeys,
                 existingFingerprints, newTransactions, skippedDuplicates,
                 processingErrors, outcomes>>

\* Mutant of success: a processing error makes the run a failure too.
successNoErrorAtAll(pErrors, iErrors) == Len(pErrors) + Len(iErrors) = 0

\* The success flag of the final summary.
success(pErrors, iErrors) == Len(iErrors) = 0

\* The final summary of a live run.
FinishInsert ==
  /\ pc = "insert"
  /\ batchIndex = Len(batchArray(newTransactions, BatchSize))
  /\ Return(Summary(success(processingErrors, insertionErrors), Len(movements), totalInserted,
                    Len(skippedDuplicates),
                    Len(processingErrors) + Len(insertionErrors), FALSE))
  /\ UNCHANGED <<catVars, worldVars>>
  /\ UNCHANGED <<server, lastError, failure, chosen, dryRun, attempt, movements, existing, existingSimpleKeys,
                 existingFingerprints, newTransactions, skippedDuplicates,
                 processingErrors, outcomes, batchIndex, totalInserted,
                 insertionErrors>>

\* The caller has the result; the run's locals are gone.
ReturnFromSync ==
  /\ pc = "done"
  /\ nRuns' = nRuns + 1
  /\ lastRun' = [dryRun |-> dryRun, result |-> result]
  /\ editedSince' = FALSE
  /\ pc' = "idle"
  /\ dryRun' = FALSE
  /\ attempt' = 0
  /\ movements' = <<>>
  /\ existing' = <<>>
  /\ existingSimpleKeys' = {}
  /\ existingFingerprints' = {}
  /\ newTransactions' = <<>>
  /\ skippedDuplicates' = <<>>
  /\ processingErrors' = <<>>
  /\ outcomes' = <<>>
  /\ batchIndex' = 0
  /\ totalInserted' = 0
  /\ insertionErrors' = <<>>
  /\ result' = Undefined
  /\ failure' = "none"
  /\ chosen' = <<>>
  /\ lastError' = NoError
  /\ UNCHANGED <<catVars, config, source, account, server>>

\* Between two runs the user edits a transaction in Lunch Money: a new
\* amount, or no category; payee and external_id stay.
EditTarget ==
  /\ pc = "idle"
  /\ nRuns > 0
  /\ nRuns < MaxRuns
  /\ ~editedSince
  /\ \E i \in 1..Len(account) :
       \/ /\ account[i].amount # 5000
          /\ account' = [account EXCEPT ![i].amount = 5000]
       \/ /\ account[i].category_id # Null
          /\ account' = [account EXCEPT ![i].category_id = Null]
  /\ editedSince' = TRUE
  /\ UNCHANGED <<catVars, config, source, nRuns, lastRun, pc, localVars, server>>

Next ==
  \/ StartSync
  \/ FetchSource
  \/ FetchExisting
  \/ ProcessMovement
  \/ AfterProcessing
  \/ InsertBatch
  \/ FinishInsert
  \/ ReturnFromSync
  \/ EditTarget
  \/ RestartProcess

Spec == Init /\ [][Next]_vars

(***************************************************************************)
(* The server model (server.js): one process in which the hourly cron job  *)
(* (runScheduledSync) and POST /sync each call sync, and the daily cron    *)
(* job, the start-up and POST /rebuild-memory rebuild the memory.  Each    *)
(* handler is an async function: between two of its awaited requests any   *)
(* other handler may run.  A step of a run is here one awaited request     *)
(* with its retries, or the whole processing loop.  The runs share the     *)
(* module-level caches, the memory file and the Lunch Money account.       *)
(***************************************************************************)
EntryPoints == {"scheduled", "manual"}

\* A run of sync in the server: where it is, and its locals.
IdleRun ==
  [pc |-> "idle", dryRun |-> FALSE, existingSimpleKeys |-> {},
   existingFingerprints |-> {}, newTransactions |-> <<>>]

NoRebuild == [done |-> FALSE, memory |-> <<>>]

\* The server right after app.listen.
ServerStarted ==
  [on |-> TRUE, runs |-> [e \in EntryPoints |-> IdleRun], rebuilt |-> NoRebuild]

\* Category names as character strings, as the transactions endpoint
\* spells them, and back.
CategoryChars(name) ==
  CASE name = "Food" -> <<"F", "o", "o", "d">>
    [] name = "Shop" -> <<"S", "h", "o", "p">>
    [] OTHER -> <<>>

CategoryOfChars(chars) ==
  IF chars = CategoryChars("Food") THEN "Food"
  ELSE IF chars = CategoryChars("Shop") THEN "Shop"
  ELSE Null

\* The name of the category with this id in the account's category list.
NameOfId(remote, id) ==
  LET hits == {i \in 1..Len(remote) : remote[i].id = id}
  IN IF hits = {} THEN Null ELSE remote[CHOOSE i \in hits : TRUE].name

HasPayeeAndCategory(tx) == tx.payee # <<>> /\ tx.category_name # <<>>

\* fetchTransactionsForLearning: the account's transactions since
\* 2023-01-01 (every date of the model) that have a payee and a category.
fetchTransactionsForLearning(ledger, remote) ==
  SelectSeq([i \in 1..Len(ledger) |->
               [payee |-> ledger[i].payee,
                category_name |->
                  IF ledger[i].category_id = Null THEN <<>>
                  ELSE CategoryChars(NameOfId(remote, ledger[i].category_id))]],
            HasPayeeAndCategory)

\* The rebuilt memory with its category names as the resolver writes them.
RebuiltMemory(ledger, remote) ==
  LET memory == buildMemoryFromLunchMoney(fetchTransactionsForLearning(ledger, remote))
  IN [i \in 1..Len(memory) |-> <<memory[i][1], CategoryOfChars(memory[i][2])>>]

\* Two transactions categorized by hand before the sync window, of the
\* same payee and category: a payee of letters and digits, or one with a
\* character sanitizePayee removes.
Categorized(payee, amount) ==
  [date |-> "2024-01-01", amount |-> amount, payee |-> payee,
   category_id |-> "101", external_id |-> <<>>, origin |-> 0]

ServerAccounts ==
  { << Categorized(<<"a", "1">>, 3000), Categorized(<<"a", "1">>, 4000) >>,
    << Categorized(<<"<", "a">>, 3000), Categorized(<<"<", "a">>, 4000) >> }

ServerInitialFiles == {NoFile} \cup SyncInitialFiles

InitServer ==
  /\ memoryCache = NotLoaded
  /\ categoriesCache = NoCategories
  /\ memoryFile \in ServerInitialFiles
  /\ remoteCategories \in CategoryLists
  /\ callPc = "idle"
  /\ lastCall = NoCall
  /\ nCalls = 0
  /\ config = [categoryRules |-> CategoryRules]
  /\ source = <<CoffeeA, Lunch>>
  /\ account \in ServerAccounts
  /\ editedSince = FALSE
  /\ nRuns = 0
  /\ lastRun = NoRun
  /\ pc = "idle"
  /\ NoLocals
  /\ server = ServerStarted

RunsInProgress == {e \in EntryPoints : server.runs[e].pc # "idle"}

SetRun(e, run) == server' = [server EXCEPT !.runs[e] = run]

\* sync returned, with or without a summary.
EndRun(e) ==
  /\ SetRun(e, IdleRun)
  /\ nRuns' = nRuns + 1

\* Mutant of MayStart: a run starts only while no run is in progress.
MayStartWhenIdle(inProgress) == inProgress = {}

\* What runScheduledSync and the POST /sync handler test before they call
\* sync: nothing.
MayStart(inProgress) == TRUE

\* The cron job fires (sync({config})) or a POST /sync arrives
\* (sync({config, dryRun})); each entry point is followed through one run
\* at a time.
TriggerSync(e) ==
  /\ server.on
  /\ server.runs[e].pc = "idle"
  /\ nRuns + Cardinality(RunsInProgress) < MaxRuns
  /\ MayStart(RunsInProgress)
  /\ \E d \in (IF e = "manual" THEN BOOLEAN ELSE {FALSE}) :
       SetRun(e, [IdleRun EXCEPT !.pc = "fetch_source", !.dryRun = d])
  /\ UNCHANGED <<catVars, worldVars, pc, localVars>>

\* The source fetch with its retries: the movements, or nothing.
ServerFetchSource(e) ==
  /\ server.on
  /\ server.runs[e].pc = "fetch_source"
  /\ \E ok \in BOOLEAN :
       IF ok /\ source # <<>>
       THEN SetRun(e, [server.runs[e] EXCEPT !.pc = "fetch_existing"])
            /\ UNCHANGED nRuns
       ELSE EndRun(e)
  /\ UNCHANGED <<catVars, config, source, account, editedSince, lastRun, pc,
                 localVars>>

\* The fetch of the existing transactions with its retries.
ServerFetchExisting(e) ==
  /\ server.on
  /\ server.runs[e].pc = "fetch_existing"
  /\ \E ok \in BOOLEAN :
       IF ok
       THEN SetRun(e, [server.runs[e] EXCEPT
                         !.pc = "process",
                         !.existingSimpleKeys =
                            ExistingSimpleKeys(fetchTransactions(account)),
                         !.existingFingerprints =
                            ExistingFingerprints(fetchTransactions(account))])
            /\ UNCHANGED nRuns
       ELSE EndRun(e)
  /\ UNCHANGED <<catVars, config, source, account, editedSince, lastRun, pc,
                 localVars>>

\* One iteration of the processing loop on the loop state st.
ProcessStep(st, movement, i, categoryRules, remote, writeOk, fetchOk) ==
  IF IsDuplicate(movement, st.existingSimpleKeys, st.existingFingerprints)
  THEN st
  ELSE LET r == assignCategoryId(movement.payee, categoryRules, st.memoryCache,
                                 st.categoriesCache, st.memoryFile, remote,
                                 writeOk, fetchOk)
       IN [existingSimpleKeys |->
             AddKey(st.existingSimpleKeys, SimpleKey(movement.date, movement.amount)),
           existingFingerprints |->
             AddKey(st.existingFingerprints, MovementFingerprint(movement)),
           newTransactions |->
             Append(st.newTransactions, BuildTransaction(movement, r.result, i)),
           memoryCache |-> r.memoryCache,
           categoriesCache |-> r.categoriesCache,
           memoryFile |-> r.memoryFile]

RECURSIVE ProcessLoop(_, _, _, _, _, _, _)
\* The processing loop over the first n movements.
ProcessLoop(ms, n, st, categoryRules, remote, writeOk, fetchOk) ==
  IF n = 0 THEN st
  ELSE ProcessStep(ProcessLoop(ms, n - 1, st, categoryRules, remote, writeOk, fetchOk),
                   ms[n], n, categoryRules, remote, writeOk, fetchOk)

\* The run of e is about to categorize a movement: one of them is new.
Categorizes(e) ==
  /\ server.on
  /\ server.runs[e].pc = "process"
  /\ \E i \in 1..Len(source) :
       ~IsDuplicate(source[i], server.runs[e].existingSimpleKeys,
                    server.runs[e].existingFingerprints)

\* The processing loop of the run of e and the tests after it.
ServerProcess(e) ==
  /\ server.on
  /\ server.runs[e].pc = "process"
  /\ \E writeOk \in BOOLEAN, fetchOk \in BOOLEAN :
       LET run == server.runs[e]
           st == ProcessLoop(source, Len(source),
                             [existingSimpleKeys |-> run.existingSimpleKeys,
                              existingFingerprints |-> run.existingFingerprints,
                              newTransactions |-> <<>>,
                              memoryCache |-> memoryCache,
                              categoriesCache |-> categoriesCache,
                              memoryFile |-> memoryFile],
                             config.categoryRules, remoteCategories,
                             writeOk, fetchOk)
       IN /\ memoryCache' = st.memoryCache
          /\ categoriesCache' = st.categoriesCache
          /\ memoryFile' = st.memoryFile
          /\ IF AfterLoop(Len(st.newTransactions), run.dryRun) = "insert"
             THEN SetRun(e, [run EXCEPT
                               !.pc = "insert",
                               !.existingSimpleKeys = st.existingSimpleKeys,
                               !.existingFingerprints = st.existingFingerprints,
                               !.newTransactions = st.newTransactions])
                  /\ UNCHANGED nRuns
             ELSE EndRun(e)
  /\ UNCHANGED <<remoteCategories, callPc, lastCall, nCalls, config, source,
                 account, editedSince, lastRun, pc, localVars>>

\* The insertion of the new transactions (one batch, with its retries) and
\* the final summary.
ServerInsert(e) ==
  /\ server.on
  /\ server.runs[e].pc = "insert"
  /\ \E ok \in BOOLEAN :
       account' = IF ok THEN account \o server.runs[e].newTransactions
                  ELSE account
  /\ EndRun(e)
  /\ UNCHANGED <<catVars, config, source, editedSince, lastRun, pc, localVars>>

\* updateMemory and POST /rebuild-memory: the history is fetched, the
\* memory is built and saved to the file; memoryCache is not touched.  A
\* failed fetch changes nothing.
RebuildMemory ==
  /\ server.on
  /\ \E fetchOk \in BOOLEAN, writeOk \in BOOLEAN :
       LET memory == RebuiltMemory(account, remoteCategories)
       IN IF fetchOk
          THEN /\ memoryFile' = saveMemory(memoryFile, memory, writeOk)
               /\ server' = IF writeOk
                             THEN [server EXCEPT
                                     !.rebuilt = [done |-> TRUE, memory |-> memory]]
                             ELSE server
          ELSE UNCHANGED <<memoryFile, server>>
  /\ UNCHANGED <<memoryCache, categoriesCache, remoteCategories, callPc,
                 lastCall, nCalls, syncVars>>

NextServer ==
  \/ \E e \in EntryPoints : TriggerSync(e)
  \/ \E e \in EntryPoints : ServerFetchSource(e)
  \/ \E e \in EntryPoints : ServerFetchExisting(e)
  \/ \E e \in EntryPoints : ServerProcess(e)
  \/ \E e \in EntryPoints : ServerInsert(e)
  \/ RebuildMemory

SpecServer == InitServer /\ [][NextServer]_vars

(***************************************************************************)
(* Claims about assignCategoryId, checked under SpecCat.  Each is stated   *)
(* on the state right after a call: lastCall holds the call's arguments,   *)
(* the state before it and what it returned.                               *)
(***************************************************************************)
Returned == callPc = "returned"

MemoryBefore == EffectiveMemory(lastCall.memoryCacheBefore, lastCall.memoryFileBefore)

MemoryAfter == EffectiveMemory(memoryCache, memoryFile)

\* Case-insensitive containment of a key in the sanitized payee of the call.
KeyContained(k) == includes(toLowerCase(lastCall.sanitizedPayee), toLowerCase(k))

RuleHits == {i \in 1..Len(lastCall.written) : KeyContained(lastCall.written[i][1])}

ExactHits == {i \in 1..Len(MemoryBefore) : KeyContained(MemoryBefore[i][1])}

Score(i) == calculateSimilarity(lastCall.sanitizedPayee, MemoryBefore[i][1])

FuzzyHits == {i \in 1..Len(MemoryBefore) : 10 * Score(i).n >= 7 * Score(i).d}

\* Entries of the memory no other entry beats in similarity.
BestScored ==
  {i \in 1..Len(MemoryBefore) :
     \A j \in 1..Len(MemoryBefore) : Score(j).n * Score(i).d <= Score(i).n * Score(j).d}

First(S) == CHOOSE i \in S : \A j \in S : i <= j

\* The value an object built from the written members holds for key k.
WrittenValue(k) ==
  LET ws == {i \in 1..Len(lastCall.written) : lastCall.written[i][1] = k}
  IN lastCall.written[CHOOSE i \in ws : \A j \in ws : j <= i][2]

\* Own-property enumeration order of two distinct written keys.
EnumeratedBefore(k1, k2) ==
  LET pos(k) == First({i \in 1..Len(lastCall.written) : lastCall.written[i][1] = k})
  IN \/ IsIndexKey(k1) /\ ~IsIndexKey(k2)
     \/ IsIndexKey(k1) /\ IsIndexKey(k2) /\ NumVal(k1) < NumVal(k2)
     \/ ~IsIndexKey(k1) /\ ~IsIndexKey(k2) /\ pos(k1) < pos(k2)

\* C6 as claimed: a contained manual rule key decides, and among several the
\* first in insertion order (the order the rules were written in) wins.
C6_FirstWrittenRuleWins ==
  (Returned /\ lastCall.sanitizedPayee # <<>> /\ RuleHits # {})
    => lastCall.categoryName = lastCall.written[First(RuleHits)][2]

\* C6 amended: layered resolution, first match wins.  A contained manual rule
\* key decides whatever the memory holds, and among several contained keys the
\* first in the enumeration order of the rules object wins (keys that are
\* array indices in ascending numeric order, then the others in insertion
\* order); without a rule match a contained memory key decides as an exact
\* match before any fuzzy match is tried.
C6_RulePriority ==
  (Returned /\ lastCall.sanitizedPayee # <<>>) =>
    /\ RuleHits # {} =>
         /\ lastCall.matchSource = "config_rule"
         /\ \E i \in RuleHits :
              /\ lastCall.categoryName = WrittenValue(lastCall.written[i][1])
              /\ \A j \in RuleHits :
                   \/ lastCall.written[j][1] = lastCall.written[i][1]
                   \/ EnumeratedBefore(lastCall.written[i][1], lastCall.written[j][1])
    /\ (RuleHits = {} /\ ExactHits # {}) =>
         /\ lastCall.matchSource = "memory_exact"
         /\ lastCall.categoryName = MemoryBefore[First(ExactHits)][2]

\* A manual rule won although the memory holds a contained key of another
\* category.
C6_Witness ==
  /\ Returned
  /\ lastCall.sanitizedPayee # <<>>
  /\ RuleHits # {}
  /\ \E e \in ExactHits : MemoryBefore[e][2] # lastCall.categoryName

\* C7: when a manual rule chooses the category, the call leaves the
\* in-process memory and the persisted memory as they were and saves nothing.
C7_RulesNeverWrittenBack ==
  (Returned /\ lastCall.sanitizedPayee # <<>> /\ RuleHits # {}) =>
    /\ MemoryAfter = MemoryBefore
    /\ memoryFile = lastCall.memoryFileBefore
    /\ ~lastCall.saved

\* A manual rule chose a category the non-empty memory does not hold for this
\* payee: a memory match of the same kind would have been learned.
C7_Witness ==
  /\ Returned
  /\ lastCall.sanitizedPayee # <<>>
  /\ RuleHits # {}
  /\ ExactHits # {}
  /\ ObjGet(MemoryBefore, lastCall.sanitizedPayee) # lastCall.categoryName

\* The call chose its category through the exact or the fuzzy memory path and
\* the memory did not map the sanitized payee to it yet.
LearningCase ==
  /\ Returned
  /\ lastCall.sanitizedPayee # <<>>
  /\ RuleHits = {}
  /\ (ExactHits # {} \/ FuzzyHits # {})
  /\ ObjGet(MemoryBefore, lastCall.sanitizedPayee) # lastCall.categoryName

\* C8 as claimed: after learning, both the in-process memory and the
\* persisted store map the sanitized payee to the chosen category.
C8_LearnedInBothStores ==
  LearningCase =>
    /\ ObjGet(memoryCache.data, lastCall.sanitizedPayee) = lastCall.categoryName
    /\ ObjGet(loadMemory(memoryFile), lastCall.sanitizedPayee) = lastCall.categoryName

\* C8 amended: after learning, the in-process memory maps the sanitized payee
\* to the chosen category and a save of that memory was attempted before
\* returning; the persisted store equals the in-process memory when the write
\* succeeded and is left as it was when the write failed.
C8_Learning ==
  LearningCase =>
    /\ lastCall.categoryName \in CategoryNames
    /\ memoryCache.loaded
    /\ ObjGet(memoryCache.data, lastCall.sanitizedPayee) = lastCall.categoryName
    /\ \A i \in 1..Len(MemoryBefore) :
         MemoryBefore[i][1] # lastCall.sanitizedPayee
           => ObjGet(memoryCache.data, MemoryBefore[i][1]) = MemoryBefore[i][2]
    /\ lastCall.saved
    /\ lastCall.persisted => memoryFile = FileOf(memoryCache.data)
    /\ ~lastCall.persisted => memoryFile = lastCall.memoryFileBefore

\* A payee longer than the memorized key it contains gained its own entry,
\* in the cache and in the file.
C8_Witness ==
  /\ LearningCase
  /\ ExactHits # {}
  /\ ~HasKey(MemoryBefore, lastCall.sanitizedPayee)
  /\ lastCall.persisted
  /\ ObjGet(loadMemory(memoryFile), lastCall.sanitizedPayee) = lastCall.categoryName

\* C9: the fuzzy step decides only when no manual rule key and no memory key
\* is contained in the payee and the memory is not empty; it then takes the
\* first memorized key of highest similarity and uses its category if and
\* only if that similarity is at least 0.70; otherwise no category is chosen.
C9_FuzzyStep ==
  (Returned /\ lastCall.sanitizedPayee # <<>>) =>
    /\ lastCall.matchSource = "memory_fuzzy"
         <=> (RuleHits = {} /\ ExactHits = {} /\ FuzzyHits # {})
    /\ lastCall.matchSource = "memory_fuzzy" =>
         /\ MemoryBefore # <<>>
         /\ First(BestScored) \in FuzzyHits
         /\ lastCall.categoryName = MemoryBefore[First(BestScored)][2]
    /\ (RuleHits = {} /\ ExactHits = {} /\ FuzzyHits = {}) =>
         lastCall.categoryName = Null

\* The fuzzy step chose between two memorized keys of different similarity.
C9_Witness ==
  /\ Returned
  /\ lastCall.matchSource = "memory_fuzzy"
  /\ \E i \in 1..Len(MemoryBefore) : i \notin FuzzyHits /\ Score(i).n > 0

\* No manual rule, exact memory key or fuzzy match applies to the payee.
NothingApplies == RuleHits = {} /\ ExactHits = {} /\ FuzzyHits = {}

\* C10: when the sanitized payee is empty, or nothing matches it, the call
\* returns null, leaves the in-process and the persisted memory as they were
\* and does not fetch the category list.
C10_NoMatchNoEffect ==
  (Returned /\ (lastCall.sanitizedPayee = <<>> \/ NothingApplies)) =>
    /\ lastCall.result = Null
    /\ MemoryAfter = MemoryBefore
    /\ memoryFile = lastCall.memoryFileBefore
    /\ ~lastCall.saved
    /\ ~lastCall.fetched
    /\ categoriesCache = lastCall.categoriesCacheBefore
    /\ lastCall.sanitizedPayee = <<>> => memoryCache = lastCall.memoryCacheBefore

\* A non-empty payee matched nothing in a non-empty memory while the category
\* list had not been fetched yet.
C10_Witness ==
  /\ Returned
  /\ lastCall.sanitizedPayee # <<>>
  /\ NothingApplies
  /\ MemoryBefore # <<>>
  /\ lastCall.written # <<>>
  /\ ~lastCall.categoriesCacheBefore.loaded

(***************************************************************************)
(* Claims about deduplication in sync, checked under Spec.  While a run    *)
(* is in its loop, in the insertion or done, movements, existing,          *)
(* outcomes and newTransactions are the run's own locals.                  *)
(***************************************************************************)
Duplicates == {"simple", "fingerprint"}

\* The movement and the fetched transaction have the same date and the
\* same amount once both are written with two decimals.
SameSimpleKey(movement, tx) ==
  /\ movement.date = tx.date
  /\ toFixed2(movement.amount) = toFixed2(tx.amount)

MatchesFetched(i) ==
  \E j \in 1..Len(existing) : SameSimpleKey(movements[i], existing[j])

InSomeBatch(i) ==
  LET batches == batchArray(newTransactions, BatchSize)
  IN \E b \in 1..Len(batches) :
       \E k \in 1..Len(batches[b]) : batches[b][k].origin = i

\* C1: in any run, a movement whose date and two-decimal amount equal those
\* of a transaction fetched from the target is classified duplicate and is
\* in no insertion batch, whatever its payee or reference.
C1_SimpleKeyDuplicate ==
  \A i \in 1..Len(outcomes) :
    MatchesFetched(i) =>
      /\ outcomes[i] \in Duplicates
      /\ \A k \in 1..Len(newTransactions) : newTransactions[k].origin # i
      /\ ~InSomeBatch(i)

\* A run is over in which a movement with a reference was skipped for its
\* simple key alone, against a fetched amount that differs before rounding.
C1_Witness ==
  /\ pc = "done"
  /\ \E i \in 1..Len(outcomes) :
       /\ MatchesFetched(i)
       /\ outcomes[i] = "simple"
       /\ movements[i].reference # <<>>
       /\ \A j \in 1..Len(existing) : existing[j].amount # movements[i].amount

\* The key and the digest of a transaction of the new-transaction list.
TransactionSimpleKey(t) == <<t.date, t.amount>>
TransactionFingerprint(t) == <<t.date, t.amount, t.payee, t.external_id>>

SameMovement(m, n) ==
  /\ m.date = n.date
  /\ m.amount = n.amount
  /\ m.payee = n.payee
  /\ m.reference = n.reference

\* C2: at every point of a run no two transactions of the new-transaction
\* list share a simple key or a fingerprint, and when the same movement
\* (date, amount, payee, reference) comes twice in the source the second
\* occurrence is classified duplicate.
C2_WithinBatchSuppression ==
  /\ \A k, l \in 1..Len(newTransactions) :
       k # l =>
         /\ TransactionSimpleKey(newTransactions[k])
              # TransactionSimpleKey(newTransactions[l])
         /\ TransactionFingerprint(newTransactions[k])
              # TransactionFingerprint(newTransactions[l])
  /\ \A i, j \in 1..Len(outcomes) :
       (i < j /\ SameMovement(movements[i], movements[j]))
         => outcomes[j] \in Duplicates

\* The same movement came twice: the first was new, the second was skipped
\* as a duplicate of it.
C2_Witness ==
  /\ pc = "done"
  /\ Len(outcomes) = 2
  /\ SameMovement(movements[1], movements[2])
  /\ outcomes[1] = "new"
  /\ outcomes[2] = "fingerprint"
  /\ Len(newTransactions) = 1

AllInWindow == \A i \in 1..Len(source) : source[i].date \in SyncWindow

\* The run before this one was live and reported success, and nobody
\* edited the account since.
AfterCleanLiveRun ==
  /\ nRuns > 0
  /\ lastRun.result.kind = "summary"
  /\ ~lastRun.dryRun
  /\ lastRun.result.success
  /\ ~editedSince

MatchesExisting(i) ==
  IsDuplicate(movements[i], ExistingSimpleKeys(existing),
              ExistingFingerprints(existing))

\* C4: two movements with the same date and amount but different payees,
\* neither matching a transaction of the target, are both classified new.
C4_DifferentPayeesBothNew ==
  \A i, j \in 1..Len(outcomes) :
    ( /\ i < j
      /\ movements[i].date = movements[j].date
      /\ movements[i].amount = movements[j].amount
      /\ movements[i].payee # movements[j].payee
      /\ ~MatchesExisting(i)
      /\ ~MatchesExisting(j) )
    => (outcomes[i] = "new" /\ outcomes[j] = "new")

\* The account holds a transaction inserted for movement i whose payee and
\* reference are still the movement's.
InsertedBefore(i) ==
  \E k \in 1..Len(account) :
    /\ account[k].origin = i
    /\ account[k].payee = movements[i].payee
    /\ account[k].external_id = movements[i].reference

\* C5: a movement of the sync window that an earlier run inserted is
\* classified duplicate by a later run, whatever else was edited on its
\* transaction, as long as payee and reference are unchanged.
C5_InsertedStaysDuplicate ==
  pc = "process" =>
    \A i \in 1..Len(outcomes) :
      (InsertedBefore(i) /\ movements[i].date \in SyncWindow)
        => outcomes[i] \in Duplicates

(***************************************************************************)
(* Claims about failures in sync, checked under Spec.                      *)
(***************************************************************************)
\* The name is not in the category list of the account.
CategoryMissing(name) ==
  /\ name # Null
  /\ \A k \in 1..Len(remoteCategories) :
       LowerName(remoteCategories[k].name) # LowerName(name)

HasProcessingError(i) ==
  \E e \in 1..Len(processingErrors) : processingErrors[e].origin = i

\* C11: when the category name chosen for a movement is not in the target's
\* category list, categorization raises no error and returns null, and the
\* run still inserts the transaction, without a category id.
C11_MissingCategoryStillInserted ==
  \A i \in 1..Len(chosen) :
    CategoryMissing(chosen[i]) =>
      /\ ~HasProcessingError(i)
      /\ \E k \in 1..Len(newTransactions) :
           /\ newTransactions[k].origin = i
           /\ newTransactions[k].category_id = Null
      /\ (pc = "done" /\ ~dryRun /\ result.kind = "summary" /\ result.success) =>
           \E k \in 1..Len(account) :
             /\ account[k].origin = i
             /\ account[k].payee = movements[i].payee
             /\ account[k].category_id = Null

\* A live run is over with success; it chose "Shop" for a movement, got the
\* category list, which has no "Shop", and inserted the movement.
C11_Witness ==
  /\ pc = "done"
  /\ ~dryRun
  /\ result.kind = "summary"
  /\ result.success
  /\ categoriesCache.loaded
  /\ \E i \in 1..Len(chosen) :
       /\ chosen[i] = "Shop"
       /\ CategoryMissing(chosen[i])
       /\ \E k \in 1..Len(account) : account[k].origin = i

FetchPhases == {"fetch_source", "fetch_existing"}

\* C13: when the fetch of the source movements or of the existing target
\* transactions fails after its retries, the run ends there with no
\* effect: nothing was classified or categorized, the memory and the
\* category cache are as they were, and the account received nothing.
C13_FetchFailureNoEffect ==
  [][ /\ (pc \in FetchPhases \/ pc' \in FetchPhases) =>
           UNCHANGED <<memoryCache, categoriesCache, memoryFile, account>>
      /\ failure' # "none" =>
           /\ pc' = "done"
           /\ result' = Undefined
           /\ outcomes' = <<>>
           /\ chosen' = <<>>
           /\ newTransactions' = <<>>
           /\ skippedDuplicates' = <<>>
           /\ totalInserted' = 0 ]_vars

\* The source returned movements, then the fetch of the existing
\* transactions failed on the first try and on each of its three retries.
C13_Witness ==
  /\ pc = "done"
  /\ failure = "existing"
  /\ attempt = FetchRetries
  /\ movements # <<>>
  /\ result = Undefined

InNewTransactions(i) ==
  \E k \in 1..Len(newTransactions) : newTransactions[k].origin = i

\* C14 as stated: a candidate whose processing failed is in the
\* processing-errors list and is not among the transactions to insert.
C14_FailedCandidateExcluded ==
  \A i \in 1..Len(outcomes) : HasProcessingError(i) => ~InNewTransactions(i)

\* C14, amended: a candidate whose categorization throws (here: the
\* configured rules are null) is recorded in the processing-errors list
\* with step "categorization" and is still put in the new-transaction
\* list, without a category id; every recorded error is of that kind; and
\* a run that got past its fetches processes every movement.
C14_FailedCandidateRecorded ==
  /\ \A i \in 1..Len(outcomes) :
       /\ (IsNullObject(config.categoryRules) /\ outcomes[i] = "new")
            => HasProcessingError(i)
       /\ HasProcessingError(i) =>
            /\ outcomes[i] = "new"
            /\ \E k \in 1..Len(newTransactions) :
                 /\ newTransactions[k].origin = i
                 /\ newTransactions[k].category_id = Null
  /\ \A e \in 1..Len(processingErrors) :
       /\ processingErrors[e].step = "categorization"
       /\ processingErrors[e].origin \in 1..Len(outcomes)
  /\ (pc \in {"insert", "done"} /\ failure = "none" /\ movements # <<>>)
       => Len(outcomes) = Len(movements)

\* A live run: the categorization of the first movement threw, the second
\* movement was processed all the same, and both were inserted.
C14_Witness ==
  /\ pc = "done"
  /\ ~dryRun
  /\ Len(outcomes) = 2
  /\ HasProcessingError(1)
  /\ outcomes[2] = "new"
  /\ result.kind = "summary"
  /\ result.inserted = 2

(***************************************************************************)
(* A claim about the category fetch, checked under SpecCat.                *)
(***************************************************************************)
\* C12: when the fetch of the category list fails while a chosen name is
\* being resolved, the call of assignCategoryId raises an error instead of
\* returning an ordinary null.
C12_FetchFailurePropagates ==
  (Returned /\ lastCall.fetchFailed) => lastCall.threw

(***************************************************************************)
(* A run with more new transactions than one batch holds.  The source has  *)
(* one movement more than the batch size, all of different amounts and of *)
(* a payee no rule and no memory entry matches, and the Lunch Money        *)
(* account starts empty, so the first live run posts two batches: one of   *)
(* 50 and one of 1.  Nobody edits the account by hand.                     *)
(***************************************************************************)

ManyMovements ==
  [i \in 1..(BatchSize + 1) |-> Movement("2024-02-01", 1000 * i, <<"g">>, <<>>)]

InitBatches ==
  /\ memoryCache = NotLoaded
  /\ categoriesCache = NoCategories
  /\ memoryFile \in SyncInitialFiles
  /\ remoteCategories \in CategoryLists
  /\ callPc = "idle"
  /\ lastCall = NoCall
  /\ nCalls = 0
  /\ config = [categoryRules |-> CategoryRules]
  /\ source = ManyMovements
  /\ account = <<>>
  /\ editedSince = FALSE
  /\ nRuns = 0
  /\ lastRun = NoRun
  /\ pc = "idle"
  /\ NoLocals
  /\ server = ServerOff

NextBatches ==
  \/ StartSync
  \/ FetchSource
  \/ FetchExisting
  \/ ProcessMovement
  \/ AfterProcessing
  \/ InsertBatch
  \/ FinishInsert
  \/ ReturnFromSync

SpecBatches == InitBatches /\ [][NextBatches]_vars

Batches == batchArray(newTransactions, BatchSize)

\* The batches of this run that insertionErrors records.
FailedBatches ==
  { insertionErrors[k].batchIndex + 1 : k \in 1..Len(insertionErrors) }

RECURSIVE SizeOfSucceeded(_)
\* The total size of the first n batches, those of FailedBatches left out.
SizeOfSucceeded(n) ==
  IF n = 0 THEN 0
  ELSE SizeOfSucceeded(n - 1)
       + (IF n \in FailedBatches THEN 0 ELSE Len(Batches[n]))

\* C15: during and after the insertion loop, every batch before the loop
\* index was attempted: it is either recorded once in insertionErrors, with
\* its index and size, or counted in totalInserted; a live run that reached
\* the insertion returns only after the loop index passed the last batch,
\* and its inserted count is the total size of the batches that are not in
\* insertionErrors.
C15_FailedBatchDoesNotStopLater ==
  /\ pc = "insert" =>
       /\ batchIndex <= Len(Batches)
       /\ FailedBatches \subseteq 1..batchIndex
       /\ Cardinality(FailedBatches) = Len(insertionErrors)
       /\ \A k \in 1..Len(insertionErrors) :
            insertionErrors[k].batchSize
              = Len(Batches[insertionErrors[k].batchIndex + 1])
       /\ totalInserted = SizeOfSucceeded(batchIndex)
  /\ (pc = "done" /\ result.kind = "summary" /\ ~dryRun
        /\ newTransactions # <<>>) =>
       /\ batchIndex = Len(Batches)
       /\ FailedBatches \subseteq 1..Len(Batches)
       /\ Cardinality(FailedBatches) = Len(insertionErrors)
       /\ result.inserted = SizeOfSucceeded(Len(Batches))

\* The first batch of 50 failed after its retries and the batch after it
\* was inserted: the run reports one transaction inserted.
C15_Witness ==
  /\ pc = "done"
  /\ result.kind = "summary"
  /\ Len(Batches) = 2
  /\ FailedBatches = {1}
  /\ result.inserted = 1
  /\ \E i \in 1..Len(account) : account[i].amount = 1000 * (BatchSize + 1)

(***************************************************************************)
(* Claims about the summary of a run, checked under Spec.                  *)
(***************************************************************************)

\* C16: in every summary a run returns, success is false exactly when the
\* run recorded an insertion error, and the errors count is the number of
\* processing errors plus the number of insertion errors; so processing
\* errors alone are counted and leave success true.
C16_SuccessIffNoInsertionError ==
  (pc = "done" /\ result.kind = "summary") =>
    /\ result.success <=> (insertionErrors = <<>>)
    /\ result.errors = Len(processingErrors) + Len(insertionErrors)

\* A live run with a processing error and no insertion error that posted
\* its batch: success is true and the error is counted.
C16_Witness ==
  /\ pc = "done"
  /\ result.kind = "summary"
  /\ ~dryRun
  /\ processingErrors # <<>>
  /\ insertionErrors = <<>>
  /\ result.inserted > 0
  /\ result.success
  /\ result.errors = Len(processingErrors)

\* C17: every call of sync that completes returns a summary with success,
\* processed, inserted, skipped and errors, the runs with no source
\* movement and the runs with a failed fetch included.
C17_EveryRunReturnsSummary ==
  pc = "done" => result.kind = "summary"

\* C18: no step of a dry run goes to the insertion loop or changes the
\* transactions of the Lunch Money account, whatever the source, the
\* account and the failures of the requests are.
C18_DryRunNeverInserts ==
  [][dryRun => (pc' # "insert" /\ account' = account)]_vars

\* A dry run that found something to insert and returned its preview.
C18_Witness ==
  /\ pc = "done"
  /\ dryRun
  /\ newTransactions # <<>>
  /\ result.kind = "summary"
  /\ result.inserted = Len(newTransactions)
  /\ batchIndex = 0

\* The run before this one was a dry run that returned a summary, this one
\* is a live run on the same source and account that returned a summary
\* after inserting all it sent.
LiveRunAfterDryRun ==
  /\ nRuns > 0
  /\ lastRun.dryRun
  /\ lastRun.result.kind = "summary"
  /\ ~editedSince
  /\ pc = "done"
  /\ ~dryRun
  /\ result.kind = "summary"
  /\ insertionErrors = <<>>

\* The counts half of C19: the dry run reported the counts of the live run.
SameCountsAsLiveRun ==
  LiveRunAfterDryRun =>
    /\ lastRun.result.processed = result.processed
    /\ lastRun.result.inserted = result.inserted
    /\ lastRun.result.skipped = result.skipped
    /\ lastRun.result.errors = result.errors

\* C19: a dry run reports the processed, inserted, skipped and errors
\* counts a live run on the same inputs reports, and the summary of every
\* dry run carries dryRun: true, also when there is nothing new to insert.
C19_DryRunSameCountsAndFlag ==
  /\ SameCountsAsLiveRun
  /\ (pc = "done" /\ dryRun /\ result.kind = "summary") => result.dryRun

\* C20: a run in which the processing of a movement or the insertion of a
\* batch failed does not end by throwing: no run ends with an error thrown
\* to the caller of sync, and a run that recorded a processing error or an
\* insertion error returns a summary whose errors count holds them all.
C20_FailuresStayInSummary ==
  pc = "done" =>
    /\ result.kind # "thrown"
    /\ (processingErrors # <<>> \/ insertionErrors # <<>>) =>
         /\ result.kind = "summary"
         /\ result.errors = Len(processingErrors) + Len(insertionErrors)

\* A run with a movement whose categorization threw and a batch whose
\* insertion failed after its retries returned a summary counting both.
C20_Witness ==
  /\ pc = "done"
  /\ processingErrors # <<>>
  /\ insertionErrors # <<>>
  /\ result.kind = "summary"
  /\ ~result.success
  /\ result.errors >= 2

(***************************************************************************)
(* Claims about the server process, checked under SpecServer.              *)
(***************************************************************************)

\* C21: in one server process the scheduled sync and the on-demand sync
\* never run at the same time: at most one run of sync is in progress.
C21_SingleFlight ==
  server.on => Cardinality(RunsInProgress) <= 1

(***************************************************************************)
(* Claims about the order of the steps of one run, checked under Spec.     *)
(***************************************************************************)
\* The order of the phases of a run.
StepOrder ==
  { <<"idle", "fetch_source">>,
    <<"fetch_source", "fetch_existing">>, <<"fetch_source", "done">>,
    <<"fetch_existing", "process">>, <<"fetch_existing", "done">>,
    <<"process", "insert">>, <<"process", "done">>,
    <<"insert", "done">>,
    <<"done", "idle">> }

\* The remote calls a step completed: the source fetch, the fetch of the
\* existing transactions, the GET of the categories, a POST the account
\* took.
RemoteCallsOfStep ==
  {c \in {"source", "existing", "categories", "insert"} :
     \/ c = "source" /\ pc = "fetch_source" /\ movements' # movements
     \/ c = "existing" /\ pc = "fetch_existing" /\ pc' = "process"
     \/ c = "categories" /\ categoriesCache' # categoriesCache
                         /\ categoriesCache'.loaded
     \/ c = "insert" /\ pc # "idle" /\ account' # account}

\* C22: the phases of a run follow each other in the order source fetch,
\* fetch of the existing transactions, processing, insertion, summary; the
\* movements are processed one at a time and the batches are posted one
\* at a time; the insertion starts, and the account is written, only when
\* every movement has been classified; no step has more than one remote
\* call.
C22_StepsInOrder ==
  [][ /\ pc' # pc => <<pc, pc'>> \in StepOrder
      /\ pc' = "process" => existing' = fetchTransactions(account)
      /\ (pc = "process" /\ pc' = "process") =>
             Len(outcomes') = Len(outcomes) + 1
      /\ (pc = "insert" /\ pc' = "insert") =>
             batchIndex' \in {batchIndex, batchIndex + 1}
      /\ (pc' = "insert" \/ (pc # "idle" /\ account' # account)) =>
             /\ movements' = source
             /\ Len(outcomes') = Len(movements')
             /\ Len(newTransactions') + Len(skippedDuplicates') = Len(movements')
      /\ Cardinality(RemoteCallsOfStep) <= 1
    ]_vars

\* A live run classified two movements as new and inserted both.
C22_Witness ==
  /\ pc = "done"
  /\ ~dryRun
  /\ Len(movements) = 2
  /\ result.kind = "summary"
  /\ result.inserted = 2
  /\ \E i, j \in 1..Len(account) : account[i].origin = 1 /\ account[j].origin = 2

(***************************************************************************)
(* A claim about the batches, checked under SpecBatches.                   *)
(***************************************************************************)
\* The positions in the source of the movements classified new.
NewOrigins == {i \in 1..Len(outcomes) : outcomes[i] = "new"}

\* C23: while a run inserts, its batches are consecutive slices of
\* newTransactions: each has between 1 and 50 transactions, each but the
\* last has 50, the j-th new transaction is at place ((j - 1) mod 50) + 1
\* of batch ((j - 1) div 50) + 1 and the batches hold nothing else; and
\* newTransactions holds the movements classified new, in source order.
C23_BatchesAreSlices ==
  pc = "insert" =>
    /\ \A k \in 1..Len(Batches) :
         /\ Len(Batches[k]) >= 1
         /\ Len(Batches[k]) <= BatchSize
         /\ k < Len(Batches) => Len(Batches[k]) = BatchSize
    /\ Len(Batches) = (Len(newTransactions) + BatchSize - 1) \div BatchSize
    /\ \A j \in 1..Len(newTransactions) :
         LET k == ((j - 1) \div BatchSize) + 1
             n == ((j - 1) % BatchSize) + 1
         IN /\ k <= Len(Batches)
            /\ n <= Len(Batches[k])
            /\ Batches[k][n] = newTransactions[j]
    /\ {newTransactions[j].origin : j \in 1..Len(newTransactions)} = NewOrigins
    /\ \A j \in 1..Len(newTransactions) :
         /\ newTransactions[j].date = movements[newTransactions[j].origin].date
         /\ newTransactions[j].payee = movements[newTransactions[j].origin].payee
         /\ j > 1 => newTransactions[j - 1].origin < newTransactions[j].origin

\* 51 new transactions make a batch of 50 and a batch of 1; the first has
\* been posted.
C23_Witness ==
  /\ pc = "insert"
  /\ Len(newTransactions) = BatchSize + 1
  /\ Len(Batches) = 2
  /\ Len(Batches[1]) = BatchSize
  /\ Len(Batches[2]) = 1
  /\ batchIndex = 1

(***************************************************************************)
(* A claim about the retries of the fetches, checked under Spec.           *)
(***************************************************************************)
\* The failures the retry policy is meant to retry: no response at all, a
\* 5xx response, a 429 response.
Retryable(error) ==
  ~error.response \/ error.status >= 500 \/ error.status = 429

\* An attempt of one of the two fetches has just failed.
FetchAttemptFailed ==
  /\ pc \in FetchPhases
  /\ lastError' # NoError
  /\ (attempt' # attempt \/ pc' # pc)

\* C24: when an attempt of the source fetch or of the fetch of the existing
\* transactions fails, it is tried again if the failure is a network
\* error, a 5xx response or a 429 response and attempts are left, and the
\* fetch is given up at once if the failure is any other 4xx response.
C24_FetchRetryPolicy ==
  [][ FetchAttemptFailed =>
        /\ (Retryable(lastError') /\ attempt < FetchRetries) =>
              (pc' = pc /\ attempt' = attempt + 1)
        /\ ~Retryable(lastError') => (pc' = "done" /\ attempt' = attempt)
    ]_vars

(***************************************************************************)
(* The rebuild model: calls of buildMemoryFromLunchMoney(token) on         *)
(* histories of at most four transactions, with two payees (one also       *)
(* written with a trailing blank) and two category names, one of them a    *)
(* number.                                                                 *)
(***************************************************************************)
HistoryPayees == { <<"a">>, <<"a", " ">>, <<"1">> }

HistoryCategories == { <<"F">>, <<"7">>, <<>> }

HistoryTransactions ==
  { [payee |-> p, category_name |-> c] : p \in HistoryPayees, c \in HistoryCategories }

Histories ==
  {<<>>} \cup {<<t>> : t \in HistoryTransactions}
         \cup {<<t, u>> : t \in HistoryTransactions, u \in HistoryTransactions}
         \cup {<<t, u, v>> : t \in HistoryTransactions, u \in HistoryTransactions,
                             v \in HistoryTransactions}
         \cup {<<t, u, v, w>> : t \in HistoryTransactions, u \in HistoryTransactions,
                                v \in HistoryTransactions, w \in HistoryTransactions}

InitRebuild ==
  /\ memoryCache = NotLoaded
  /\ categoriesCache = NoCategories
  /\ memoryFile = NoFile
  /\ remoteCategories \in CategoryLists
  /\ callPc = "idle"
  /\ lastCall = NoCall
  /\ nCalls = 0
  /\ config = [categoryRules |-> <<>>]
  /\ source = <<>>
  /\ account = <<>>
  /\ editedSince = FALSE
  /\ nRuns = 0
  /\ lastRun = NoRun
  /\ pc = "idle"
  /\ NoLocals
  /\ server = ServerOff

\* One call buildMemoryFromLunchMoney(token) whose fetch returned history;
\* saveToFile is true by default.
CallBuildMemory ==
  /\ callPc = "idle"
  /\ nCalls < MaxCalls
  /\ \E history \in Histories, writeOk \in BOOLEAN :
       LET memory == buildMemoryFromLunchMoney(history)
       IN /\ memoryFile' = saveMemory(memoryFile, memory, writeOk)
          /\ lastCall' = [called |-> TRUE, history |-> history, memory |-> memory]
  /\ callPc' = "returned"
  /\ nCalls' = nCalls + 1
  /\ UNCHANGED <<memoryCache, categoriesCache, remoteCategories, syncVars, server>>

NextRebuild == CallBuildMemory \/ ReturnFromCall

SpecRebuild == InitRebuild /\ [][NextRebuild]_vars

(***************************************************************************)
(* A claim about the rebuild, checked under SpecRebuild on the state right *)
(* after a call.                                                           *)
(***************************************************************************)
\* The transactions of the history that have a payee and a category.
Usable(h) ==
  {i \in 1..Len(h) : trim(h[i].payee) # <<>> /\ trim(h[i].category_name) # <<>>}

HistoryPayeesOf(h) == {trim(h[i].payee) : i \in Usable(h)}

CategoriesOf(h, p) ==
  {trim(h[i].category_name) : i \in {j \in Usable(h) : trim(h[j].payee) = p}}

Occurrences(h, p, c) ==
  Cardinality({i \in Usable(h) : trim(h[i].payee) = p /\ trim(h[i].category_name) = c})

FirstSeen(h, p, c) ==
  CHOOSE i \in Usable(h) :
    /\ trim(h[i].payee) = p /\ trim(h[i].category_name) = c
    /\ \A j \in Usable(h) :
         (trim(h[j].payee) = p /\ trim(h[j].category_name) = c) => i <= j

\* The categories the payee has most often.
MostOften(h, p) ==
  {c \in CategoriesOf(h, p) :
     \A d \in CategoriesOf(h, p) : Occurrences(h, p, d) <= Occurrences(h, p, c)}

\* c comes before d when the counts of a payee are enumerated: names that
\* are canonical array indices first, in ascending numeric order, then the
\* other names in the order they were first seen.
EnumeratedFirst(h, p, c, d) ==
  IF IsIndexKey(c) /\ IsIndexKey(d) THEN NumVal(c) <= NumVal(d)
  ELSE IF IsIndexKey(c) THEN TRUE
  ELSE IF IsIndexKey(d) THEN FALSE
  ELSE FirstSeen(h, p, c) <= FirstSeen(h, p, d)

\* A payee is learned exactly when a category occurs at least twice for it.
LearnedWhenTwice(h, memory) ==
  /\ \A i \in 1..Len(memory) : memory[i][1] \in HistoryPayeesOf(h)
  /\ \A p \in HistoryPayeesOf(h) :
       HasKey(memory, p) <=> \E c \in CategoriesOf(h, p) : Occurrences(h, p, c) >= 2

\* C25 as stated: the memory built from a history maps a payee to the
\* category it has most often, only if that category occurs at least twice
\* for the payee, and of the categories tied for the highest count to the
\* one seen first.
C25_MajorityFirstSeen ==
  callPc = "returned" =>
    LET h == lastCall.history
        memory == lastCall.memory
    IN /\ LearnedWhenTwice(h, memory)
       /\ \A p \in HistoryPayeesOf(h) :
            HasKey(memory, p) =>
              /\ ObjGet(memory, p) \in MostOften(h, p)
              /\ \A d \in MostOften(h, p) :
                   FirstSeen(h, p, ObjGet(memory, p)) <= FirstSeen(h, p, d)

\* C25, amended: as above, but of the categories tied for the highest
\* count the one that is enumerated first wins, which is the one seen
\* first unless a tied category name is a canonical array index.
C25_MajorityFirstEnumerated ==
  callPc = "returned" =>
    LET h == lastCall.history
        memory == lastCall.memory
    IN /\ LearnedWhenTwice(h, memory)
       /\ \A p \in HistoryPayeesOf(h) :
            HasKey(memory, p) =>
              /\ ObjGet(memory, p) \in MostOften(h, p)
              /\ \A d \in MostOften(h, p) :
                   EnumeratedFirst(h, p, ObjGet(memory, p), d)

\* A history in which payee "a" has one category twice and another once,
\* and payee "1" appears once: "a" is learned with the majority, "1" is not.
C25_Witness ==
  /\ callPc = "returned"
  /\ Len(lastCall.history) = 4
  /\ Occurrences(lastCall.history, <<"a">>, <<"F">>) = 2
  /\ Occurrences(lastCall.history, <<"a">>, <<"7">>) = 1
  /\ Occurrences(lastCall.history, <<"1">>, <<"F">>) = 1
  /\ HasKey(lastCall.memory, <<"a">>)
  /\ ObjGet(lastCall.memory, <<"a">>) = <<"F">>
  /\ ~HasKey(lastCall.memory, <<"1">>)

(***************************************************************************)
(* Claims about the memory in a server process, checked under SpecServer.  *)
(***************************************************************************)
\* The run of e leaves its processing loop in this step.
Processes(e) ==
  /\ server.on
  /\ server.runs[e].pc = "process"
  /\ server'.runs[e].pc # "process"

\* C26: in a server process, once a rebuild has completed, every
\* categorization matches against a memory that holds the payees of the
\* rebuilt associations, also when a sync had run before the rebuild.
C26_RebuiltMemoryUsed ==
  [][\A e \in EntryPoints :
       (Processes(e) /\ Categorizes(e) /\ server.rebuilt.done) =>
         \A i \in 1..Len(server.rebuilt.memory) :
           HasKey(EffectiveMemory(memoryCache, memoryFile),
                  server.rebuilt.memory[i][1])]_vars

\* The payee is what sanitizePayee leaves: trimmed, at most MaxPayeeLength
\* characters, none of them dangerous.
IsSanitized(payee) ==
  /\ trim(payee) = payee
  /\ Len(payee) <= MaxPayeeLength
  /\ \A i \in 1..Len(payee) : payee[i] \notin DangerousChars

\* C27: every key of the memory, in the process and in the file, is a
\* sanitized payee.
C27_MemoryKeysSanitized ==
  /\ \A i \in 1..Len(memoryCache.data) : IsSanitized(memoryCache.data[i][1])
  /\ \A i \in 1..Len(loadMemory(memoryFile)) :
       IsSanitized(loadMemory(memoryFile)[i][1])

(***************************************************************************)
(* Claims about the module-level caches, checked under SpecCat.            *)
(***************************************************************************)
\* The call that has just returned was the first to need the memory, and
\* the memory file was missing or did not parse.
LoadedNothing ==
  /\ callPc = "returned"
  /\ ~lastCall.memoryCacheBefore.loaded
  /\ lastCall.memoryFileBefore.kind # "ok"

Restarts == memoryCache' = NotLoaded /\ categoriesCache' = NoCategories

\* C29: within one process, once the category list has been fetched, no
\* call fetches it again and the cached map stays what it is.
C29_CategoriesFetchedOnce ==
  [][(categoriesCache.loaded /\ ~Restarts) =>
       /\ categoriesCache' = categoriesCache
       /\ (callPc = "idle" /\ callPc' = "returned") => ~lastCall'.fetched]_vars

\* A call made with the list already cached that resolved an id from it.
C29_Witness ==
  /\ callPc = "returned"
  /\ lastCall.categoriesCacheBefore.loaded
  /\ lastCall.result # Null
  /\ ~lastCall.fetched
  /\ categoriesCache = lastCall.categoriesCacheBefore

(***************************************************************************)
(* The fingerprint model: calls of generateTransactionFingerprint on two   *)
(* transactions, whose payees and references may hold the "-" that joins   *)
(* the fields of the key, and which carry a field the key does not use.    *)
(***************************************************************************)
FingerprintPayees == { <<"a">>, <<"a", "-", "b">>, <<"b">> }

FingerprintReferences == { <<>>, <<"c">>, <<"b", "-", "c">> }

FingerprintInputs ==
  { [date |-> d, amount |-> a, payee |-> p, reference |-> r, currency |-> c] :
      d \in {"2024-02-01", "2024-02-02"}, a \in {1000, 0 - 1000},
      p \in FingerprintPayees, r \in FingerprintReferences,
      c \in {"clp", "usd"} }

InitFingerprint ==
  /\ memoryCache = NotLoaded
  /\ categoriesCache = NoCategories
  /\ memoryFile = NoFile
  /\ remoteCategories \in CategoryLists
  /\ callPc = "idle"
  /\ lastCall = NoCall
  /\ nCalls = 0
  /\ config = [categoryRules |-> <<>>]
  /\ source = <<>>
  /\ account = <<>>
  /\ editedSince = FALSE
  /\ nRuns = 0
  /\ lastRun = NoRun
  /\ pc = "idle"
  /\ NoLocals
  /\ server = ServerOff

\* The fingerprints of two transactions are computed.
CallFingerprint ==
  /\ callPc = "idle"
  /\ nCalls < MaxCalls
  /\ \E t \in FingerprintInputs, u \in FingerprintInputs :
       lastCall' = [called |-> TRUE,
                    first |-> t,
                    second |-> u,
                    firstDigest |-> generateTransactionFingerprint(t),
                    secondDigest |-> generateTransactionFingerprint(u)]
  /\ callPc' = "returned"
  /\ nCalls' = nCalls + 1
  /\ UNCHANGED <<memoryCache, categoriesCache, memoryFile, remoteCategories,
                 syncVars, server>>

NextFingerprint == CallFingerprint \/ ReturnFromCall

SpecFingerprint == InitFingerprint /\ [][NextFingerprint]_vars

(***************************************************************************)
(* A claim about the fingerprint, checked under SpecFingerprint on the     *)
(* state right after a call.                                               *)
(***************************************************************************)
\* (date, amount, payee, reference-or-empty)
TupleOf(t) == <<t.date, t.amount, t.payee, t.reference>>

\* The text the payee and the reference make in the key.
PayeeAndReference(t) == t.payee \o <<"-">> \o t.reference

ScorerChars == {"a", "A", "b"}

ScorerStrings ==
  {<<>>} \cup {<<c>> : c \in ScorerChars}
         \cup {<<c, d>> : c \in ScorerChars, d \in ScorerChars}
         \cup {<<c, d, e>> : c \in ScorerChars, d \in ScorerChars, e \in ScorerChars}

Candidates ==
  { <<"a", "b">>, <<"A", "b">>, <<"a", "b", "a">>, <<"b", "a", "b">>, <<"b">> }

CandidateLists ==
  {<<>>} \cup {<<c>> : c \in Candidates}
         \cup {<<c, d>> : c \in Candidates, d \in Candidates}
         \cup {<<c, d, e>> : c \in Candidates, d \in Candidates, e \in Candidates}

InitScorer ==
  /\ memoryCache = NotLoaded
  /\ categoriesCache = NoCategories
  /\ memoryFile = NoFile
  /\ remoteCategories \in CategoryLists
  /\ callPc = "idle"
  /\ lastCall = NoCall
  /\ nCalls = 0
  /\ config = [categoryRules |-> <<>>]
  /\ source = <<>>
  /\ account = <<>>
  /\ editedSince = FALSE
  /\ nRuns = 0
  /\ lastRun = NoRun
  /\ pc = "idle"
  /\ NoLocals
  /\ server = ServerOff

\* calculateSimilarity is called on two strings, in both orders.
CallSimilarity ==
  /\ callPc = "idle"
  /\ nCalls < MaxCalls
  /\ \E str1 \in ScorerStrings, str2 \in ScorerStrings :
       lastCall' = [called |-> TRUE,
                    op |-> "calculateSimilarity",
                    str1 |-> str1,
                    str2 |-> str2,
                    rating |-> calculateSimilarity(str1, str2),
                    reverse |-> calculateSimilarity(str2, str1)]
  /\ callPc' = "returned"
  /\ nCalls' = nCalls + 1
  /\ UNCHANGED <<memoryCache, categoriesCache, memoryFile, remoteCategories,
                 syncVars, server>>

\* findBestMatch is called on a target and a list of candidates.
CallFindBestMatch ==
  /\ callPc = "idle"
  /\ nCalls < MaxCalls
  /\ \E target \in ScorerStrings, candidates \in CandidateLists :
       lastCall' = [called |-> TRUE,
                    op |-> "findBestMatch",
                    target |-> target,
                    candidates |-> candidates,
                    bestMatch |-> findBestMatch(target, candidates)]
  /\ callPc' = "returned"
  /\ nCalls' = nCalls + 1
  /\ UNCHANGED <<memoryCache, categoriesCache, memoryFile, remoteCategories,
                 syncVars, server>>

NextScorer == CallSimilarity \/ CallFindBestMatch \/ ReturnFromCall

SpecScorer == InitScorer /\ [][NextScorer]_vars

(***************************************************************************)
(* Claims about the scorer, checked under SpecScorer on the state right    *)
(* after a call.                                                           *)
(***************************************************************************)
ReturnedFrom(op) == callPc = "returned" /\ lastCall.op = op

RatingEq(r, q) == r.n * q.d = q.n * r.d

\* C31: similarity(a, b) equals similarity(b, a) and lies between 0 and 1.
C31_SymmetricAndBounded ==
  ReturnedFrom("calculateSimilarity") =>
    /\ RatingEq(lastCall.rating, lastCall.reverse)
    /\ lastCall.rating.d > 0
    /\ 0 <= lastCall.rating.n
    /\ lastCall.rating.n <= lastCall.rating.d

\* Two different strings of unequal numbers of bigrams that share some
\* bigrams but not all: the rating is strictly between 0 and 1.
C31_Witness ==
  /\ ReturnedFrom("calculateSimilarity")
  /\ Len(lastCall.str1) # Len(lastCall.str2)
  /\ Cardinality(Bigrams(toLowerCase(lastCall.str1)))
       # Cardinality(Bigrams(toLowerCase(lastCall.str2)))
  /\ 0 < lastCall.rating.n
  /\ lastCall.rating.n < lastCall.rating.d

\* The positions of the candidates whose similarity to the target is the
\* highest of all.
BestPositions(target, candidates) ==
  {i \in 1..Len(candidates) :
     \A j \in 1..Len(candidates) :
       RatingGe(calculateSimilarity(target, candidates[i]),
                calculateSimilarity(target, candidates[j]))}

\* The match is the first candidate of the highest similarity, with that
\* similarity as its rating.
IsFirstBest(bestMatch, target, candidates) ==
  \E i \in BestPositions(target, candidates) :
    /\ \A j \in BestPositions(target, candidates) : i <= j
    /\ bestMatch.target = candidates[i]
    /\ RatingEq(bestMatch.rating, calculateSimilarity(target, candidates[i]))

IsNullMatch(bestMatch) ==
  bestMatch.target = NullString /\ bestMatch.rating.n = 0

\* Some candidate has a similarity above 0 to the target.
SomeSimilar(target, candidates) ==
  \E i \in 1..Len(candidates) : calculateSimilarity(target, candidates[i]).n > 0

\* C32 as stated: findBestMatch returns the first of the candidates of
\* the highest similarity to the target, and the null match with rating 0
\* when there is no candidate.
C32_FirstBestOrNullWhenNone ==
  ReturnedFrom("findBestMatch") =>
    IF lastCall.candidates = <<>>
    THEN IsNullMatch(lastCall.bestMatch)
    ELSE IsFirstBest(lastCall.bestMatch, lastCall.target, lastCall.candidates)

\* C32, amended: findBestMatch returns the first of the candidates of the
\* highest similarity to the target when that similarity is above 0, and
\* the null match with rating 0 when there is no candidate or every
\* candidate has similarity 0.
C32_FirstBestOrNullWhenNoneSimilar ==
  ReturnedFrom("findBestMatch") =>
    IF SomeSimilar(lastCall.target, lastCall.candidates)
    THEN IsFirstBest(lastCall.bestMatch, lastCall.target, lastCall.candidates)
    ELSE IsNullMatch(lastCall.bestMatch)

\* Three candidates, the last two tied for the highest similarity and
\* spelled differently: the second is returned.
C32_Witness ==
  /\ ReturnedFrom("findBestMatch")
  /\ Len(lastCall.candidates) = 3
  /\ BestPositions(lastCall.target, lastCall.candidates) = {2, 3}
  /\ lastCall.candidates[2] # lastCall.candidates[3]
  /\ lastCall.bestMatch.target = lastCall.candidates[2]
  /\ lastCall.bestMatch.rating.n > 0

(***************************************************************************)
(* The retry model: calls withRetry(fn, maxRetries, baseDelay, shouldRetry) *)
(* with maxRetries from 0 to 3, with and without shouldRetry, and a fn     *)
(* that at each invocation returns or throws one of the request errors.    *)
(* The locals of the call (attempt, lastError) and what the caller has     *)
(* seen of it are fields of lastCall.  Every invocation of fn settles and  *)
(* every sleep ends, so a running call always takes its next step.         *)
(***************************************************************************)
RetryLimits == 0..3

InitRetry ==
  /\ memoryCache = NotLoaded
  /\ categoriesCache = NoCategories
  /\ memoryFile = NoFile
  /\ remoteCategories \in CategoryLists
  /\ callPc = "idle"
  /\ lastCall = NoCall
  /\ nCalls = 0
  /\ config = [categoryRules |-> <<>>]
  /\ source = <<>>
  /\ account = <<>>
  /\ editedSince = FALSE
  /\ nRuns = 0
  /\ lastRun = NoRun
  /\ pc = "idle"
  /\ NoLocals
  /\ server = ServerOff

\* withRetry is called: let lastError; attempt = 0.
CallWithRetry ==
  /\ callPc = "idle"
  /\ nCalls < MaxCalls
  /\ \E maxRetries \in RetryLimits, hasShouldRetry \in BOOLEAN :
       lastCall' = [called |-> TRUE,
                    maxRetries |-> maxRetries,
                    hasShouldRetry |-> hasShouldRetry,
                    attempt |-> 0,
                    lastError |-> NoError,
                    invocations |-> 0,
                    errors |-> <<>>,
                    outcome |-> "pending",
                    thrown |-> NoError]
  /\ callPc' = "running"
  /\ nCalls' = nCalls + 1
  /\ UNCHANGED <<memoryCache, categoriesCache, memoryFile, remoteCategories,
                 syncVars, server>>

\* One round of the loop: fn is invoked; its result is returned, or its
\* error is caught and the loop breaks (and lastError is thrown) or sleeps
\* and goes on.
AttemptFn ==
  /\ callPc = "running"
  /\ \/ /\ lastCall' = [lastCall EXCEPT
                           !.invocations = @ + 1,
                           !.outcome = "returned"]
        /\ callPc' = "returned"
     \/ \E error \in RequestErrors :
          LET caught == [lastCall EXCEPT
                           !.invocations = @ + 1,
                           !.errors = Append(@, error),
                           !.lastError = error]
          IN IF withRetryGoesOn(lastCall.attempt, lastCall.maxRetries,
                                lastCall.hasShouldRetry, error)
             THEN /\ lastCall' = [caught EXCEPT !.attempt = @ + 1]
                  /\ callPc' = "running"
             ELSE /\ lastCall' = [caught EXCEPT
                                    !.outcome = "thrown",
                                    !.thrown = caught.lastError]
                  /\ callPc' = "returned"
  /\ UNCHANGED <<memoryCache, categoriesCache, memoryFile, remoteCategories,
                 nCalls, syncVars, server>>

NextRetry == CallWithRetry \/ AttemptFn \/ ReturnFromCall

SpecRetry == InitRetry /\ [][NextRetry]_vars /\ WF_vars(AttemptFn)

(***************************************************************************)
(* A claim about withRetry, checked under SpecRetry.                       *)
(***************************************************************************)
\* The error is one the call retries after.
RetriedAfter(error) == lastCall.hasShouldRetry => shouldRetryHttpError(error)

\* At every moment of a call: fn has been invoked at most maxRetries + 1
\* times, and every error but the last was one to retry after.  When the
\* call has returned a result, that was the first success: one invocation
\* after those that threw.  When it has thrown, it threw the error of the
\* last invocation, which shouldRetry rejected or which was that of
\* invocation maxRetries + 1.
WithRetryBounded ==
  callPc \in {"running", "returned"} =>
    /\ lastCall.invocations <= lastCall.maxRetries + 1
    /\ \A i \in 1..(Len(lastCall.errors) - 1) : RetriedAfter(lastCall.errors[i])
    /\ callPc = "running" =>
         /\ lastCall.invocations = Len(lastCall.errors)
         /\ lastCall.invocations <= lastCall.maxRetries
         /\ \A i \in 1..Len(lastCall.errors) : RetriedAfter(lastCall.errors[i])
    /\ (callPc = "returned" /\ lastCall.outcome = "returned") =>
         /\ lastCall.invocations = Len(lastCall.errors) + 1
         /\ \A i \in 1..Len(lastCall.errors) : RetriedAfter(lastCall.errors[i])
    /\ (callPc = "returned" /\ lastCall.outcome # "returned") =>
         /\ lastCall.outcome = "thrown"
         /\ lastCall.invocations = Len(lastCall.errors)
         /\ lastCall.errors # <<>>
         /\ lastCall.thrown = lastCall.errors[Len(lastCall.errors)]
         /\ \/ ~RetriedAfter(lastCall.thrown)
            \/ lastCall.invocations = lastCall.maxRetries + 1

\* C33: withRetry invokes fn at most maxRetries + 1 times and then ends:
\* with the result of the first success, or by throwing the error that
\* shouldRetry rejected or the error of the last attempt.
C33_WithRetryTerminates ==
  /\ []WithRetryBounded
  /\ (callPc = "running") ~> (callPc = "returned")

\* A call with shouldRetry and maxRetries = 2 that threw the third error
\* after two errors it retried after, the third being one to retry as well.
C33_Witness ==
  /\ callPc = "returned"
  /\ lastCall.hasShouldRetry
  /\ lastCall.maxRetries = 2
  /\ lastCall.outcome = "thrown"
  /\ lastCall.invocations = 3
  /\ lastCall.errors[1] # lastCall.errors[3]
  /\ shouldRetryHttpError(lastCall.thrown)
  /\ lastCall.thrown = lastCall.errors[3]

(***************************************************************************)
(* Claims about the insertion and the counts of a run, checked under Spec. *)
(***************************************************************************)
\* How many transactions of the account were built from movement i.
TimesApplied(i) == Cardinality({k \in 1..Len(account) : account[k].origin = i})

\* C34: in the first live run of a process (the account then holds no
\* transaction of an earlier run) every new transaction is applied to the
\* account at most once, whatever requests fail and are retried.
C34_AppliedAtMostOnce ==
  (nRuns = 0 /\ pc \in {"insert", "done"}) =>
    \A i \in 1..Len(movements) : TimesApplied(i) <= 1


\* The processing errors of movements that were given up: those the outer
\* catch of the loop records, with step "processing".
GivenUp == {e \in 1..Len(processingErrors) : processingErrors[e].step = "processing"}

\* C36 as stated: in every summary, processed is the number of new
\* transactions plus the skipped duplicates plus the processing errors.
C36_ProcessedIsNewSkippedErrors ==
  (pc = "done" /\ result.kind = "summary") =>
    result.processed
      = Len(newTransactions) + result.skipped + Len(processingErrors)

\* C36, amended: every movement of a run that returns a summary is either
\* queued as new, once, or skipped as duplicate, or given up with a
\* processing error of step "processing"; an error of its categorization
\* is recorded for a movement that is queued as new all the same.  So
\* processed is the number of new transactions plus the skipped duplicates
\* plus the errors of step "processing".
C36_ProcessedIsNewSkippedGivenUp ==
  (pc = "done" /\ result.kind = "summary") =>
    /\ result.processed = Len(movements)
    /\ result.skipped = Len(skippedDuplicates)
    /\ Len(outcomes) = Len(movements)
    /\ \A i \in 1..Len(movements) :
         IF outcomes[i] = "new"
         THEN Cardinality({k \in 1..Len(newTransactions) :
                             newTransactions[k].origin = i}) = 1
         ELSE ~InNewTransactions(i)
    /\ Len(skippedDuplicates)
         = Cardinality({i \in 1..Len(movements) : outcomes[i] # "new"})
    /\ \A e \in 1..Len(processingErrors) :
         processingErrors[e].step = "categorization"
           => InNewTransactions(processingErrors[e].origin)
    /\ result.processed
         = Len(newTransactions) + result.skipped + Cardinality(GivenUp)

\* A run of two movements: the categorization of the first threw and it
\* was queued as new, the second was skipped as its duplicate.
C36_Witness ==
  /\ pc = "done"
  /\ result.kind = "summary"
  /\ result.processed = 2
  /\ Len(newTransactions) = 1
  /\ result.skipped = 1
  /\ Len(processingErrors) = 1
  /\ processingErrors[1].origin = 1

(***************************************************************************)
(* A claim about interleaved runs, checked under SpecServer.               *)
(***************************************************************************)
\* C35: when the scheduled and the on-demand sync of a server process
\* interleave, no movement of the source is inserted into the account
\* twice.
C35_InterleavedRunsInsertOnce ==
  server.on => \A i \in 1..Len(source) : TimesApplied(i) <= 1

(***************************************************************************)
(* Claims about the effects of assignCategoryId on the memory, checked     *)
(* under SpecCat on the state right after a call.                          *)
(***************************************************************************)
\* C37 as stated: whenever the call returns null, the persisted memory is
\* after the call what it was before.
C37_NullLeavesFile ==
  (Returned /\ lastCall.result = Null) => memoryFile = lastCall.memoryFileBefore

\* C37, amended: whenever the call returns null, the persisted memory is
\* what it was before, unless the call chose a category through the memory
\* for a payee not yet mapped to it: the file then holds the memory with
\* that association added, although no id was found for the category.
C37_NullLeavesFileUnlessLearned ==
  (Returned /\ lastCall.result = Null) =>
    \/ memoryFile = lastCall.memoryFileBefore
    \/ /\ LearningCase
       /\ lastCall.saved
       /\ memoryFile = FileOf(ObjSet(MemoryBefore, lastCall.sanitizedPayee,
                                     lastCall.categoryName))

\* A call that returned null for a payee the memory matched to a category
\* the account does not have, and wrote the new association to the file.
C37_Witness ==
  /\ Returned
  /\ lastCall.result = Null
  /\ LearningCase
  /\ lastCall.persisted
  /\ ~lastCall.fetchFailed
  /\ memoryFile # lastCall.memoryFileBefore
  /\ ObjGet(loadMemory(memoryFile), lastCall.sanitizedPayee) = lastCall.categoryName

(***************************************************************************)
(* A claim about the memory in a dry run, checked under Spec.              *)
(***************************************************************************)
\* C38: no step of a dry run changes the persisted memory.
C38_DryRunLeavesMemoryFile ==
  [][dryRun => memoryFile' = memoryFile]_vars

(***************************************************************************)
(* The same calls on memory files whose keys resemble each other: one key  *)
(* contained in another that has a different category (as a rebuild from   *)
(* the history or an edit of the file leaves them), and two keys of three  *)
(* characters that short payees are similar to.                            *)
(***************************************************************************)
KeyedMemories ==
  { ObjFromPairs(<< <<(<<"a">>), "Shop">>, <<(<<"a", "a">>), "Food">> >>),
    ObjFromPairs(<< <<(<<"A", "a", "1">>), "Food">>, <<(<<"a", "a", "a">>), "Shop">> >>) }

CatInitKeys ==
  /\ memoryCache = NotLoaded
  /\ categoriesCache = NoCategories
  /\ memoryFile \in {FileOf(m) : m \in KeyedMemories}
  /\ remoteCategories \in CategoryLists
  /\ callPc = "idle"
  /\ lastCall = NoCall
  /\ nCalls = 0
  /\ config = [categoryRules |-> <<>>]
  /\ source = <<>>
  /\ account = <<>>
  /\ editedSince = FALSE
  /\ nRuns = 0
  /\ lastRun = NoRun
  /\ pc = "idle"
  /\ NoLocals
  /\ server = ServerOff

SpecCatKeys == CatInitKeys /\ [][CatNext]_vars

(***************************************************************************)
(* Claims about entries of the memory that resemble the payee, checked     *)
(* under SpecCatKeys on the state right after a call.                      *)
(***************************************************************************)
\* The memory the call found holds the sanitized payee as a key, and no
\* manual rule matches the payee.
PayeeMemorized ==
  /\ Returned
  /\ lastCall.sanitizedPayee # <<>>
  /\ RuleHits = {}
  /\ HasKey(MemoryBefore, lastCall.sanitizedPayee)

\* C39: when the memory holds the sanitized payee as a key and no manual
\* rule matches, the call chooses the category of that entry and leaves
\* the entry as it is, in the process and in the file.
C39_ExactKeyWins ==
  PayeeMemorized =>
    /\ lastCall.categoryName = ObjGet(MemoryBefore, lastCall.sanitizedPayee)
    /\ ObjGet(MemoryAfter, lastCall.sanitizedPayee)
         = ObjGet(MemoryBefore, lastCall.sanitizedPayee)
    /\ memoryFile.kind = "ok" =>
         ObjGet(loadMemory(memoryFile), lastCall.sanitizedPayee)
           = ObjGet(MemoryBefore, lastCall.sanitizedPayee)

\* What the next call does when it is made with the payee and the rules
\* of the call that has just returned, on the state that call left.
SecondCall(payee, writeOk, fetchOk) ==
  assignCategoryId(payee, ObjFromPairs(lastCall.written), memoryCache,
                   categoriesCache, memoryFile, remoteCategories,
                   writeOk, fetchOk)

\* C40: a call repeated at once with the same payee and the same rules
\* chooses the category the first call chose and writes nothing: the
\* in-process memory and the persisted memory stay as the first call left
\* them, whether or not the writes and the category fetch succeed.
C40_SecondCallChangesNothing ==
  Returned =>
    \A payee \in Payees, writeOk \in BOOLEAN, fetchOk \in BOOLEAN :
      sanitizePayee(payee) = lastCall.sanitizedPayee =>
        LET r == SecondCall(payee, writeOk, fetchOk)
        IN /\ r.categoryName = lastCall.categoryName
           /\ ~r.saved
           /\ r.memoryFile = memoryFile
           /\ EffectiveMemory(r.memoryCache, r.memoryFile) = MemoryAfter

\* The first call chose its category by similarity, learned the payee and
\* failed to write the file; the second call finds the payee as a key.
C40_Witness ==
  /\ Returned
  /\ RuleHits = {}
  /\ ExactHits = {}
  /\ FuzzyHits # {}
  /\ lastCall.saved
  /\ ~lastCall.persisted
  /\ memoryFile = lastCall.memoryFileBefore
  /\ HasKey(memoryCache.data, lastCall.sanitizedPayee)
  /\ \E writeOk \in BOOLEAN, fetchOk \in BOOLEAN :
       SecondCall(lastCall.sanitizedPayee, writeOk, fetchOk).matchSource
         = "memory_exact"

====
